---- MODULE Spec2Model ----
(***************************************************************************)
(* Model of the AI-Cookbook workflow patterns:                             *)
(*   1-prompt-chaining.py  (linear chain with one gate)                    *)
(*   2-routing.py          (router with per-category handlers, one gate)   *)
(*   3-parallization.py    (two guardrail branches joined by gather)       *)
(*                                                                         *)
(* Conventions.                                                            *)
(*  - A float confidence is an integer number of thousandths               *)
(*    (0.6 is 600, 1.0 is 1000).                                           *)
(*  - Optional[T] is a set with at most one element; None is {}.           *)
(*  - A Python str built by an f-string is the sequence of its pieces.     *)
(*  - A model response text is a sequence of tokens: code fence, the word  *)
(*    json, whitespace, free prose, or one JSON object.                    *)
(*  - An operation that may raise returns [ok |-> TRUE, val |-> v] or      *)
(*    [ok |-> FALSE, exc |-> name].                                        *)
(***************************************************************************)
EXTENDS Integers, Sequences, FiniteSets, TLC

VARIABLES
    flow,            \* which script's orchestrator is running, "idle" if none
    pc,              \* position inside the orchestrator
    user_input,      \* argument of the running orchestrator
    calls,           \* model.generate_content calls issued for this request
    response,        \* last value of the local `response` of a stage
    extraction,      \* chain: result of extract_event_info
    event_details,   \* chain: result of parse_event_details
    route_result,    \* routing: result of route_calendar_request
    branch,          \* parallel: position of each gathered coroutine
    branch_response, \* parallel: what each branch's model call produced
    branch_result,   \* parallel: value each coroutine resolved to
    ret,             \* value returned to the caller
    webhook_secret,  \* endpoint.py: WEBHOOK_SECRET, read from the environment
    request,         \* endpoint.py: the webhook request being handled
    data,            \* endpoint.py: the decoded body of that request
    upstream,        \* endpoint.py: requests transcribe_by_file sent to AssemblyAI
    resp,            \* endpoint.py: the streamed response to the upload
    chat,            \* tools.py: history of the chat session
    tool_response,   \* tools.py: the local `response`, the first turn's reply
    tool_runs,       \* tools.py: the get_weather calls executed
    question,        \* retrieval.py: argument of the running function
    kb_calls,        \* retrieval.py: the search_kb calls executed
    prompt,          \* retrieval.py: the prompt ask_with_retrieval built
    kb_chat          \* retrieval.py: history of ask_with_auto_tools' chat

vars == <<flow, pc, user_input, calls, response, extraction, event_details,
          route_result, branch, branch_response, branch_result, ret,
          webhook_secret, request, data, upstream, resp,
          chat, tool_response, tool_runs,
          question, kb_calls, prompt, kb_chat>>

\* the variables of the workflow scripts and of endpoint.py
workflowVars == <<user_input, calls, response, extraction, event_details,
                  route_result, branch, branch_response, branch_result>>
endpointVars == <<webhook_secret, request, data, upstream, resp>>
toolsVars == <<chat, tool_response, tool_runs>>
retrievalVars == <<question, kb_calls, prompt, kb_chat>>

-----------------------------------------------------------------------------
(* Bounds of the model *)

\* confidences are drawn from Spread thousandths around each gate threshold
Spread == 1
\* longest participants / risk_flags / changes list a response carries
MaxListLen == 1

(* Program constants *)

\* 1-prompt-chaining.py:221  extraction.confidence_score < 0.6
ChainThreshold == 600
\* 2-routing.py:232  route_result.confidence_score < 0.7
RoutingThreshold == 700
\* 3-parallization.py:167  calendar_check.confidence_score > 0.7
ValidationThreshold == 700
\* Field(ge=0.0, le=1.0)
ConfidenceMin == 0
ConfidenceMax == 1000

None == {}

UserInputs == {"Schedule a team meeting", "What's the weather like today?"}

-----------------------------------------------------------------------------
(* Response texts *)

Fence == [tok |-> "fence"]
JsonTag == [tok |-> "json"]
Space == [tok |-> "ws"]
Prose == [tok |-> "prose"]
Obj(d) == [tok |-> "obj", val |-> d]

The(s) == CHOOSE x \in s : TRUE

\* In the string operations below `x \in {t}` binds x to the value of the
\* argument, so that the argument is evaluated once.

\* str.strip(): drop leading and trailing whitespace
RECURSIVE lstrip(_)
lstrip(t) ==
    The({ IF x # <<>> /\ Head(x) = Space THEN lstrip(Tail(x)) ELSE x : x \in {t} })

RECURSIVE rstrip(_)
rstrip(t) ==
    The({ IF x # <<>> /\ x[Len(x)] = Space
          THEN rstrip(SubSeq(x, 1, Len(x) - 1)) ELSE x : x \in {t} })

strip(t) == rstrip(lstrip(t))

\* str.startswith(prefix)
startswith(t, prefix) ==
    /\ Len(t) >= Len(prefix)
    /\ SubSeq(t, 1, Len(prefix)) = prefix

\* str.replace(old, ""): delete every non-overlapping occurrence, left to right
RECURSIVE remove(_, _)
remove(t, old) ==
    The({ IF x = <<>> THEN <<>>
          ELSE IF startswith(x, old)
          THEN remove(SubSeq(x, Len(old) + 1, Len(x)), old)
          ELSE <<Head(x)>> \o remove(Tail(x), old) : x \in {t} })

Ok(v) == [ok |-> TRUE, val |-> v]
Raise(e) == [ok |-> FALSE, exc |-> e]

\* json.loads(text): one JSON object, surrounding whitespace allowed
json_loads(t) ==
    The({ IF Len(s) = 1 /\ s[1].tok = "obj" THEN Ok(s[1].val)
          ELSE Raise("JSONDecodeError") : s \in {strip(t)} })

\* the forms in which the model may send a JSON object d
Wrappings(d) ==
    { <<Obj(d)>>,
      <<Space, Obj(d), Space>>,
      <<Fence, JsonTag, Space, Obj(d), Space, Fence>>,
      <<Fence, Space, Obj(d), Space, Fence>> }

\* what model.generate_content can do with a prompt asking for one of the
\* dicts in `dicts`: raise, answer in prose, or send a dict in some wrapping
Responses(dicts) ==
    { [raises |-> TRUE, text |-> <<>>] }
    \cup { [raises |-> FALSE, text |-> <<Prose>>] }
    \cup { [raises |-> FALSE, text |-> t] : t \in UNION { Wrappings(d) : d \in dicts } }

NoResponse == [raises |-> FALSE, text |-> <<>>]

\* confidence_score values the model may send for a gate with threshold th
Confidences(th) ==
    {ConfidenceMin - 1, ConfidenceMin, ConfidenceMax, ConfidenceMax + 1}
    \cup ((th - Spread) .. (th + Spread))

\* participants / risk_flags lists of length 0 .. MaxListLen
People == <<"Alice", "Bob", "Carol", "Dave">>
Lists(items) == { SubSeq(items, 1, n) : n \in 0 .. MaxListLen }

Descriptions == {"team meeting next Tuesday at 2pm", "send an email to the team"}

-----------------------------------------------------------------------------
(* 1-prompt-chaining.py *)

\* fault: an out-of-range confidence_score is clamped into [0, 1]
EventExtraction_clamped(d) ==
    IF {"description", "is_calendar_event", "confidence_score"} \subseteq DOMAIN d
    THEN Ok([description |-> d.description,
             is_calendar_event |-> d.is_calendar_event,
             confidence_score |->
                 IF d.confidence_score < ConfidenceMin THEN ConfidenceMin
                 ELSE IF d.confidence_score > ConfidenceMax THEN ConfidenceMax
                 ELSE d.confidence_score])
    ELSE Raise("ValidationError")

\* class EventExtraction(BaseModel)
EventExtraction(d) ==
    IF /\ {"description", "is_calendar_event", "confidence_score"} \subseteq DOMAIN d
       /\ d.confidence_score >= ConfidenceMin
       /\ d.confidence_score <= ConfidenceMax
    THEN Ok([description |-> d.description,
             is_calendar_event |-> d.is_calendar_event,
             confidence_score |-> d.confidence_score])
    ELSE Raise("ValidationError")

\* class EventDetails(BaseModel)
EventDetails(d) ==
    IF /\ {"name", "date", "duration_minutes", "participants"} \subseteq DOMAIN d
       /\ d.duration_minutes >= 1
    THEN Ok([name |-> d.name, date |-> d.date,
             duration_minutes |-> d.duration_minutes,
             participants |-> d.participants])
    ELSE Raise("ValidationError")

\* class EventConfirmation(BaseModel); calendar_link is required but nullable
EventConfirmation(d) ==
    IF {"confirmation_message", "calendar_link"} \subseteq DOMAIN d
    THEN Ok([confirmation_message |-> d.confirmation_message,
             calendar_link |-> d.calendar_link])
    ELSE Raise("ValidationError")

\* JSON objects the model may send for each stage of the chain
ExtractionDicts ==
    { [description |-> de, is_calendar_event |-> b, confidence_score |-> c] :
        de \in Descriptions, b \in BOOLEAN, c \in Confidences(ChainThreshold) }
    \cup { [description |-> de, is_calendar_event |-> TRUE] : de \in Descriptions }

DetailsDicts ==
    { [name |-> "Team meeting", date |-> "2026-11-03T14:00:00",
       duration_minutes |-> m, participants |-> ps] :
        m \in {0, 1, 60}, ps \in Lists(People) }
    \cup { [name |-> "Team meeting", date |-> "2026-11-03T14:00:00"] }

ConfirmationDicts ==
    { [confirmation_message |-> "Your meeting is booked. Susie", calendar_link |-> l] :
        l \in {None, {"calendar://team-meeting"}} }
    \cup { [calendar_link |-> None],
           [confirmation_message |-> "Your meeting is booked. Susie"] }

\* def extract_json_from_response(response_text)
extract_json_from_response(response_text) ==
    LET text == strip(response_text)
        cleaned ==
            IF startswith(text, <<Fence, JsonTag>>)
            THEN strip(remove(remove(text, <<Fence, JsonTag>>), <<Fence>>))
            ELSE IF startswith(text, <<Fence>>)
            THEN strip(remove(text, <<Fence>>))
            ELSE text
    IN  json_loads(cleaned)

\* the tail shared by the three chain links: generate_content, then
\* extract_json_from_response(response.text), then response_format(**json_data)
chain_stage(r, response_format) ==
    IF r.raises THEN Raise("ProviderError")
    ELSE LET json_data == extract_json_from_response(r.text)
         IN  IF ~ json_data.ok THEN json_data
             ELSE IF response_format = "EventExtraction"
             THEN EventExtraction(json_data.val)
             ELSE IF response_format = "EventDetails"
             THEN EventDetails(json_data.val)
             ELSE EventConfirmation(json_data.val)

\* def extract_event_info(user_input)
extract_event_info(r) == chain_stage(r, "EventExtraction")

\* def parse_event_details(description)
parse_event_details(r) == chain_stage(r, "EventDetails")

\* def generate_confirmation(event_details)
generate_confirmation(r) == chain_stage(r, "EventConfirmation")

\* the gate of process_calendar_request: TRUE when the chain may proceed
chain_gate_check(e) ==
    ~ (~ e.is_calendar_event \/ e.confidence_score < ChainThreshold)

Call(stage, arg) == [stage |-> stage, arg |-> arg]

\* a caller invokes process_calendar_request(user_input) of 1-prompt-chaining.py
ChainStart ==
    /\ flow = "idle"
    /\ flow' = "chain"
    /\ pc' = "extract"
    /\ user_input' \in UserInputs
    /\ UNCHANGED <<calls, response, extraction, event_details, route_result,
                   branch, branch_response, branch_result, ret>>
    /\ UNCHANGED <<endpointVars, toolsVars, retrievalVars>>

\* fault: a failed extraction is attempted again
ChainExtractRetry ==
    /\ flow = "chain" /\ pc = "extract"
    /\ \E r \in Responses(ExtractionDicts) :
         LET res == extract_event_info(r)
         IN  /\ calls' = Append(calls, Call("extract_event_info", user_input))
             /\ response' = r
             /\ IF res.ok
                THEN /\ extraction' = {res.val}
                     /\ pc' = "gate"
                     /\ ret' = ret
                ELSE /\ extraction' = extraction
                     /\ pc' = IF Len(calls) < 1 THEN "extract" ELSE "except"
                     /\ ret' = None
    /\ UNCHANGED <<flow, user_input, event_details, route_result,
                   branch, branch_response, branch_result>>
    /\ UNCHANGED <<endpointVars, toolsVars, retrievalVars>>

\* extraction = extract_event_info(user_input)
ChainExtract ==
    /\ flow = "chain" /\ pc = "extract"
    /\ \E r \in Responses(ExtractionDicts) :
         LET res == extract_event_info(r)
         IN  /\ calls' = Append(calls, Call("extract_event_info", user_input))
             /\ response' = r
             /\ IF res.ok
                THEN /\ extraction' = {res.val}
                     /\ pc' = "gate"
                     /\ ret' = ret
                ELSE /\ extraction' = extraction
                     /\ pc' = "except"
                     /\ ret' = None
    /\ UNCHANGED <<flow, user_input, event_details, route_result,
                   branch, branch_response, branch_result>>
    /\ UNCHANGED <<endpointVars, toolsVars, retrievalVars>>

\* if not extraction.is_calendar_event or extraction.confidence_score < 0.6
ChainGate ==
    /\ flow = "chain" /\ pc = "gate"
    /\ IF chain_gate_check(The(extraction))
       THEN pc' = "parse" /\ ret' = ret
       ELSE pc' = "gate_failed" /\ ret' = None
    /\ UNCHANGED <<flow, user_input, calls, response, extraction, event_details,
                   route_result, branch, branch_response, branch_result>>
    /\ UNCHANGED <<endpointVars, toolsVars, retrievalVars>>

\* fault: the second link is given the raw user input
ChainParseRawInput ==
    /\ flow = "chain" /\ pc = "parse"
    /\ \E r \in Responses(DetailsDicts) :
         LET res == parse_event_details(r)
         IN  /\ calls' = Append(calls, Call("parse_event_details", user_input))
             /\ response' = r
             /\ IF res.ok
                THEN /\ event_details' = {res.val}
                     /\ pc' = "confirm"
                     /\ ret' = ret
                ELSE /\ event_details' = event_details
                     /\ pc' = "except"
                     /\ ret' = None
    /\ UNCHANGED <<flow, user_input, extraction, route_result,
                   branch, branch_response, branch_result>>
    /\ UNCHANGED <<endpointVars, toolsVars, retrievalVars>>

\* event_details = parse_event_details(extraction.description)
ChainParse ==
    /\ flow = "chain" /\ pc = "parse"
    /\ \E r \in Responses(DetailsDicts) :
         LET res == parse_event_details(r)
         IN  /\ calls' = Append(calls, Call("parse_event_details",
                                            The(extraction).description))
             /\ response' = r
             /\ IF res.ok
                THEN /\ event_details' = {res.val}
                     /\ pc' = "confirm"
                     /\ ret' = ret
                ELSE /\ event_details' = event_details
                     /\ pc' = "except"
                     /\ ret' = None
    /\ UNCHANGED <<flow, user_input, extraction, route_result,
                   branch, branch_response, branch_result>>
    /\ UNCHANGED <<endpointVars, toolsVars, retrievalVars>>

\* fault: the third link is called outside the try block
ChainConfirmUncaught ==
    /\ flow = "chain" /\ pc = "confirm"
    /\ \E r \in Responses(ConfirmationDicts) :
         LET res == generate_confirmation(r)
         IN  /\ calls' = Append(calls, Call("generate_confirmation",
                                            The(event_details)))
             /\ response' = r
             /\ IF res.ok
                THEN pc' = "returned" /\ ret' = {res.val}
                ELSE pc' = "raised" /\ ret' = None
    /\ UNCHANGED <<flow, user_input, extraction, event_details, route_result,
                   branch, branch_response, branch_result>>
    /\ UNCHANGED <<endpointVars, toolsVars, retrievalVars>>

\* confirmation = generate_confirmation(event_details); return confirmation
ChainConfirm ==
    /\ flow = "chain" /\ pc = "confirm"
    /\ \E r \in Responses(ConfirmationDicts) :
         LET res == generate_confirmation(r)
         IN  /\ calls' = Append(calls, Call("generate_confirmation",
                                            The(event_details)))
             /\ response' = r
             /\ IF res.ok
                THEN pc' = "returned" /\ ret' = {res.val}
                ELSE pc' = "except" /\ ret' = None
    /\ UNCHANGED <<flow, user_input, extraction, event_details, route_result,
                   branch, branch_response, branch_result>>
    /\ UNCHANGED <<endpointVars, toolsVars, retrievalVars>>

-----------------------------------------------------------------------------
(* 2-routing.py *)

\* thousandths ending in 5 whose float lies above the decimal half, so that
\* round(v, 2) goes up; every other such value goes down
HalfRoundsUp ==
    {5, 25, 35, 55, 65, 85, 95, 115, 135, 165, 195, 225, 255, 265, 275, 315,
     325, 335, 375, 385, 395, 405, 445, 455, 465, 505, 515, 525, 535, 545,
     555, 635, 645, 655, 665, 675, 685, 755, 765, 775, 785, 795, 805, 875,
     885, 895, 905, 915, 925, 935}

\* round(v, 2) on a float given in thousandths
round2(v) ==
    LET low == v - (v % 10)
    IN  IF v % 10 > 5 \/ (v % 10 = 5 /\ v \in HalfRoundsUp) THEN low + 10 ELSE low

RequestTypes == {"new_event", "modify_event", "other"}

\* fault: the validator returns the value unrounded
validate_confidence_raw(v) ==
    IF ~ (0 <= v /\ v <= 1000) THEN Raise("ValueError") ELSE Ok(v)

\* @validator('confidence_score') def validate_confidence(cls, v)
validate_confidence(v) ==
    IF ~ (0 <= v /\ v <= 1000) THEN Raise("ValueError") ELSE Ok(round2(v))

\* class CalendarRequestType(BaseModel)
CalendarRequestType(d) ==
    IF /\ {"request_type", "confidence_score", "description"} \subseteq DOMAIN d
       /\ d.request_type \in RequestTypes
       /\ d.confidence_score >= ConfidenceMin
       /\ d.confidence_score <= ConfidenceMax
       /\ validate_confidence(d.confidence_score).ok
    THEN Ok([request_type |-> d.request_type,
             confidence_score |-> validate_confidence(d.confidence_score).val,
             description |-> d.description])
    ELSE Raise("ValidationError")

\* fault: duration_minutes is declared without ge=1
NewEventDetails_any_duration(d) ==
    IF {"name", "date", "duration_minutes", "participants"} \subseteq DOMAIN d
    THEN Ok([name |-> d.name, date |-> d.date,
             duration_minutes |-> d.duration_minutes,
             participants |-> d.participants])
    ELSE Raise("ValidationError")

\* class NewEventDetails(BaseModel)
NewEventDetails(d) ==
    IF /\ {"name", "date", "duration_minutes", "participants"} \subseteq DOMAIN d
       /\ d.duration_minutes >= 1
    THEN Ok([name |-> d.name, date |-> d.date,
             duration_minutes |-> d.duration_minutes,
             participants |-> d.participants])
    ELSE Raise("ValidationError")

\* fault: `changes` defaults to [] as the participants lists do
ModifyEventDetails_changes_optional(d) ==
    IF {"event_identifier"} \subseteq DOMAIN d
    THEN Ok([event_identifier |-> d.event_identifier,
             changes |-> IF "changes" \in DOMAIN d THEN d.changes ELSE <<>>,
             participants_to_add |->
                 IF "participants_to_add" \in DOMAIN d
                 THEN d.participants_to_add ELSE <<>>,
             participants_to_remove |->
                 IF "participants_to_remove" \in DOMAIN d
                 THEN d.participants_to_remove ELSE <<>>])
    ELSE Raise("ValidationError")

\* class ModifyEventDetails(BaseModel); the two participants lists default to []
ModifyEventDetails(d) ==
    IF {"event_identifier", "changes"} \subseteq DOMAIN d
    THEN Ok([event_identifier |-> d.event_identifier,
             changes |-> d.changes,
             participants_to_add |->
                 IF "participants_to_add" \in DOMAIN d
                 THEN d.participants_to_add ELSE <<>>,
             participants_to_remove |->
                 IF "participants_to_remove" \in DOMAIN d
                 THEN d.participants_to_remove ELSE <<>>])
    ELSE Raise("ValidationError")

\* class CalendarResponse(BaseModel)
CalendarResponse(success, message, calendar_link) ==
    [success |-> success, message |-> message, calendar_link |-> calendar_link]

\* the confidences of the spec's dispatch examples, 0.65 and 0.75
RoutingConfidences == Confidences(RoutingThreshold) \cup {650, 694, 695, 750}

RouteDicts ==
    { [request_type |-> t, confidence_score |-> c, description |-> de] :
        t \in RequestTypes \cup {"invalid_type"},
        c \in RoutingConfidences, de \in Descriptions }
    \cup { [request_type |-> t, description |-> de] :
             t \in RequestTypes, de \in Descriptions }

Changes == << [field |-> "date", new_value |-> "Wednesday 3pm"],
              [field |-> "name", new_value |-> "Sync"],
              [field |-> "duration", new_value |-> "30"] >>

ModifyDicts ==
    { [event_identifier |-> "team meeting", changes |-> cs] : cs \in Lists(Changes) }
    \cup { [event_identifier |-> "team meeting", changes |-> cs,
            participants_to_add |-> ps] : cs \in Lists(Changes), ps \in Lists(People) }
    \cup { [event_identifier |-> "team meeting"] }

\* def gemini_parse_response(response_text, response_model)
gemini_parse_response(response_text, response_model) ==
    LET text == strip(response_text)
        cleaned ==
            IF startswith(text, <<Fence, JsonTag>>)
            THEN strip(remove(remove(text, <<Fence, JsonTag>>), <<Fence>>))
            ELSE text
        json_data == json_loads(cleaned)
    IN  IF ~ json_data.ok THEN json_data
        ELSE IF response_model = "CalendarRequestType"
        THEN CalendarRequestType(json_data.val)
        ELSE IF response_model = "NewEventDetails"
        THEN NewEventDetails(json_data.val)
        ELSE ModifyEventDetails(json_data.val)

\* response = model.generate_content(prompt), then gemini_parse_response
routing_stage(r, response_model) ==
    IF r.raises THEN Raise("ProviderError")
    ELSE gemini_parse_response(r.text, response_model)

\* def route_calendar_request(user_input)
route_calendar_request(r) == routing_stage(r, "CalendarRequestType")

\* ', '.join(items)
RECURSIVE join(_)
join(items) ==
    IF items = <<>> THEN <<>>
    ELSE IF Len(items) = 1 THEN <<items[1]>>
    ELSE <<items[1], ", ">> \o join(Tail(items))

\* def handle_new_event(description)
handle_new_event(r) ==
    LET details == routing_stage(r, "NewEventDetails")
    IN  IF ~ details.ok THEN details
        ELSE Ok(CalendarResponse(
                 TRUE,
                 <<"Created new event '", details.val.name, "' for ",
                   details.val.date, " with ">> \o join(details.val.participants),
                 {<<"calendar://new?event=", details.val.name>>}))

\* [f"{change.field} to {change.new_value}" for change in details.changes]
change_descriptions(changes) ==
    [i \in 1 .. Len(changes) |-> changes[i].field \o " to " \o changes[i].new_value]

\* def handle_modify_event(description)
handle_modify_event(r) ==
    LET details == routing_stage(r, "ModifyEventDetails")
    IN  IF ~ details.ok THEN details
        ELSE Ok(CalendarResponse(
                 TRUE,
                 <<"Modified event '", details.val.event_identifier,
                   "'. Changes: ">> \o join(change_descriptions(details.val.changes)),
                 {<<"calendar://modify?event=", details.val.event_identifier>>}))

\* the except branch of the routing process_calendar_request
ErrorResponse ==
    CalendarResponse(
        FALSE,
        <<"Sorry, I encountered an error processing your calendar request.">>,
        None)

\* fault: the routing gate with the chain's threshold
routing_gate_check_chain_threshold(rr) == ~ (rr.confidence_score < ChainThreshold)

\* the gate of the routing process_calendar_request: TRUE when it may dispatch
routing_gate_check(rr) == ~ (rr.confidence_score < RoutingThreshold)

\* fault: the else branch falls through to the new-event handler
routing_dispatch_else_new(request_type) ==
    IF request_type = "modify_event" THEN "handle_modify_event"
    ELSE "handle_new_event"

\* fault: the two handlers are exchanged
routing_dispatch_swapped(request_type) ==
    IF request_type = "new_event" THEN "handle_modify_event"
    ELSE IF request_type = "modify_event" THEN "handle_new_event"
    ELSE "unsupported"

\* the if / elif / else that selects the handler
routing_dispatch(request_type) ==
    IF request_type = "new_event" THEN "handle_new_event"
    ELSE IF request_type = "modify_event" THEN "handle_modify_event"
    ELSE "unsupported"

\* a caller invokes process_calendar_request(user_input) of 2-routing.py
RoutingStart ==
    /\ flow = "idle"
    /\ flow' = "routing"
    /\ pc' = "route"
    /\ user_input' \in UserInputs
    /\ UNCHANGED <<calls, response, extraction, event_details, route_result,
                   branch, branch_response, branch_result, ret>>
    /\ UNCHANGED <<endpointVars, toolsVars, retrievalVars>>

\* route_result = route_calendar_request(user_input)
RoutingRoute ==
    /\ flow = "routing" /\ pc = "route"
    /\ \E r \in Responses(RouteDicts) :
         LET res == route_calendar_request(r)
         IN  /\ calls' = Append(calls, Call("route_calendar_request", user_input))
             /\ response' = r
             /\ IF res.ok
                THEN /\ route_result' = {res.val}
                     /\ pc' = "gate"
                     /\ ret' = ret
                ELSE /\ route_result' = route_result
                     /\ pc' = "except"
                     /\ ret' = {ErrorResponse}
    /\ UNCHANGED <<flow, user_input, extraction, event_details,
                   branch, branch_response, branch_result>>
    /\ UNCHANGED <<endpointVars, toolsVars, retrievalVars>>

\* if route_result.confidence_score < 0.7: return None
RoutingGate ==
    /\ flow = "routing" /\ pc = "gate"
    /\ IF routing_gate_check(The(route_result))
       THEN pc' = "dispatch" /\ ret' = ret
       ELSE pc' = "gate_failed" /\ ret' = None
    /\ UNCHANGED <<flow, user_input, calls, response, extraction, event_details,
                   route_result, branch, branch_response, branch_result>>
    /\ UNCHANGED <<endpointVars, toolsVars, retrievalVars>>

\* if route_result.request_type == "new_event": ... elif ... else: return None
RoutingDispatch ==
    /\ flow = "routing" /\ pc = "dispatch"
    /\ pc' = routing_dispatch(The(route_result).request_type)
    /\ ret' = IF pc' = "unsupported" THEN None ELSE ret
    /\ UNCHANGED <<flow, user_input, calls, response, extraction, event_details,
                   route_result, branch, branch_response, branch_result>>
    /\ UNCHANGED <<endpointVars, toolsVars, retrievalVars>>

\* return handle_new_event(route_result.description)
HandleNewEvent ==
    /\ flow = "routing" /\ pc = "handle_new_event"
    /\ \E r \in Responses(DetailsDicts) :
         LET res == handle_new_event(r)
         IN  /\ calls' = Append(calls, Call("handle_new_event",
                                            The(route_result).description))
             /\ response' = r
             /\ IF res.ok
                THEN pc' = "returned" /\ ret' = {res.val}
                ELSE pc' = "except" /\ ret' = {ErrorResponse}
    /\ UNCHANGED <<flow, user_input, extraction, event_details, route_result,
                   branch, branch_response, branch_result>>
    /\ UNCHANGED <<endpointVars, toolsVars, retrievalVars>>

\* return handle_modify_event(route_result.description)
HandleModifyEvent ==
    /\ flow = "routing" /\ pc = "handle_modify_event"
    /\ \E r \in Responses(ModifyDicts) :
         LET res == handle_modify_event(r)
         IN  /\ calls' = Append(calls, Call("handle_modify_event",
                                            The(route_result).description))
             /\ response' = r
             /\ IF res.ok
                THEN pc' = "returned" /\ ret' = {res.val}
                ELSE pc' = "except" /\ ret' = {ErrorResponse}
    /\ UNCHANGED <<flow, user_input, extraction, event_details, route_result,
                   branch, branch_response, branch_result>>
    /\ UNCHANGED <<endpointVars, toolsVars, retrievalVars>>

-----------------------------------------------------------------------------
(* 3-parallization.py *)

Branches == {"calendar", "security"}

\* class CalendarValidation(BaseModel)
CalendarValidation(d) ==
    IF /\ {"is_calendar_request", "confidence_score"} \subseteq DOMAIN d
       /\ d.confidence_score >= ConfidenceMin
       /\ d.confidence_score <= ConfidenceMax
    THEN Ok([is_calendar_request |-> d.is_calendar_request,
             confidence_score |-> d.confidence_score])
    ELSE Raise("ValidationError")

\* class SecurityCheck(BaseModel)
SecurityCheck(d) ==
    IF {"is_safe", "risk_flags"} \subseteq DOMAIN d
    THEN Ok([is_safe |-> d.is_safe, risk_flags |-> d.risk_flags])
    ELSE Raise("ValidationError")

\* response_model(**json_data) for the model class named response_model
validate_model(response_model, d) ==
    IF response_model = "CalendarValidation" THEN CalendarValidation(d)
    ELSE SecurityCheck(d)

\* fault: the defaults fail open
default_response_open(response_model) ==
    IF response_model = "CalendarValidation"
    THEN [is_calendar_request |-> TRUE, confidence_score |-> ConfidenceMax]
    ELSE [is_safe |-> TRUE, risk_flags |-> <<>>]

\* fault: the security default keeps its flag but reports safe
default_response_flagged_safe(response_model) ==
    IF response_model = "CalendarValidation"
    THEN [is_calendar_request |-> FALSE, confidence_score |-> 0]
    ELSE [is_safe |-> TRUE, risk_flags |-> <<"Processing error">>]

\* the except branch of gemini_parse_async: the default safe response
default_response(response_model) ==
    IF response_model = "CalendarValidation"
    THEN [is_calendar_request |-> FALSE, confidence_score |-> 0]
    ELSE [is_safe |-> FALSE, risk_flags |-> <<"Processing error">>]

\* async def gemini_parse_async(prompt, response_model), given what the model
\* call in the worker thread produced
gemini_parse_async(r, response_model) ==
    IF r.raises THEN default_response(response_model)
    ELSE LET text == strip(r.text)
             cleaned ==
                 IF startswith(text, <<Fence, JsonTag>>)
                 THEN strip(remove(remove(text, <<Fence, JsonTag>>), <<Fence>>))
                 ELSE text
             json_data == json_loads(cleaned)
             parsed == IF json_data.ok
                       THEN validate_model(response_model, json_data.val)
                       ELSE json_data
         IN  IF parsed.ok THEN parsed.val ELSE default_response(response_model)

\* the response model each guardrail asks for
ResponseModel(b) == IF b = "calendar" THEN "CalendarValidation" ELSE "SecurityCheck"

\* validate_calendar_request / check_security, named as gather names them
Guardrail(b) == IF b = "calendar" THEN "validate_calendar_request" ELSE "check_security"

\* the spec's example of an accepted confidence, 0.9
ValidationConfidences == Confidences(ValidationThreshold) \cup {900}

CalendarValidationDicts ==
    { [is_calendar_request |-> b, confidence_score |-> c] :
        b \in BOOLEAN, c \in ValidationConfidences }
    \cup { [is_calendar_request |-> TRUE] }

Flags == <<"injection", "system prompt request", "jailbreak", "malicious content">>

SecurityDicts ==
    { [is_safe |-> b, risk_flags |-> fs] : b \in BOOLEAN, fs \in Lists(Flags) }
    \cup { [is_safe |-> TRUE] }

BranchDicts(b) == IF b = "calendar" THEN CalendarValidationDicts ELSE SecurityDicts

\* fault: the join returns as soon as one awaitable is done
gather_first_done(positions) == \E b \in Branches : positions[b] = "resolved"

\* fault: the join waits for its first awaitable only
gather_calendar_done(positions) == positions["calendar"] = "resolved"

\* asyncio.gather hands its results over once every awaitable is done
gather_done(positions) == \A b \in Branches : positions[b] = "resolved"

\* fault: the confidence comparison is not strict
combined_guardrails_ge(calendar_check, security_check) ==
    /\ calendar_check.is_calendar_request
    /\ calendar_check.confidence_score >= ValidationThreshold
    /\ security_check.is_safe

\* the combined guardrails: is_valid
combined_guardrails(calendar_check, security_check) ==
    /\ calendar_check.is_calendar_request
    /\ calendar_check.confidence_score > ValidationThreshold
    /\ security_check.is_safe

\* fault: the per-branch risk flags are left out of the details
validation_result_no_flags(calendar_check, security_check) ==
    [is_valid |-> combined_guardrails(calendar_check, security_check),
     calendar_check |-> calendar_check,
     security_check |-> security_check,
     details |-> [calendar_request |-> calendar_check.is_calendar_request,
                  confidence_score |-> calendar_check.confidence_score,
                  is_safe |-> security_check.is_safe,
                  risk_flags |-> <<>>]]

\* the dictionary validate_request returns
validation_result(calendar_check, security_check) ==
    [is_valid |-> combined_guardrails(calendar_check, security_check),
     calendar_check |-> calendar_check,
     security_check |-> security_check,
     details |-> [calendar_request |-> calendar_check.is_calendar_request,
                  confidence_score |-> calendar_check.confidence_score,
                  is_safe |-> security_check.is_safe,
                  risk_flags |-> security_check.risk_flags]]

\* validate_request after the gather, given what gather handed over; reading
\* an attribute of a result that is None raises AttributeError
validate_request_tail(calendar_check, security_check) ==
    IF calendar_check = None \/ security_check = None
    THEN Raise("AttributeError")
    ELSE Ok(validation_result(The(calendar_check), The(security_check)))

\* a caller awaits validate_request(user_input); gather wraps the two
\* coroutines in tasks
ValidateStart ==
    /\ flow = "idle"
    /\ flow' = "parallel"
    /\ pc' = "gather"
    /\ user_input' \in UserInputs
    /\ branch' = [b \in Branches |-> "created"]
    /\ UNCHANGED <<calls, response, extraction, event_details, route_result,
                   branch_response, branch_result, ret>>
    /\ UNCHANGED <<endpointVars, toolsVars, retrievalVars>>

\* a task runs its coroutine up to `await asyncio.to_thread(...)`: the model
\* call is handed to a worker thread.  Tasks start in the order gather
\* created them.
BranchStart(b) ==
    /\ flow = "parallel" /\ pc = "gather"
    /\ branch[b] = "created"
    /\ b = "security" => branch["calendar"] # "created"
    /\ branch' = [branch EXCEPT ![b] = "awaiting"]
    /\ calls' = Append(calls, Call(Guardrail(b), user_input))
    /\ UNCHANGED <<flow, pc, user_input, response, extraction, event_details,
                   route_result, branch_response, branch_result, ret>>
    /\ UNCHANGED <<endpointVars, toolsVars, retrievalVars>>

\* fault: the branches share one response slot, the last reply overwrites it
ModelReplyShared(b) ==
    /\ flow = "parallel" /\ pc = "gather"
    /\ branch[b] = "awaiting"
    /\ \E r \in Responses(BranchDicts(b)) :
         branch_response' = [o \in Branches |-> r]
    /\ branch' = [branch EXCEPT ![b] = "replied"]
    /\ UNCHANGED <<flow, pc, user_input, calls, response, extraction,
                   event_details, route_result, branch_result, ret>>
    /\ UNCHANGED <<endpointVars, toolsVars, retrievalVars>>

\* the worker thread's model.generate_content returns or raises
ModelReply(b) ==
    /\ flow = "parallel" /\ pc = "gather"
    /\ branch[b] = "awaiting"
    /\ \E r \in Responses(BranchDicts(b)) :
         branch_response' = [branch_response EXCEPT ![b] = r]
    /\ branch' = [branch EXCEPT ![b] = "replied"]
    /\ UNCHANGED <<flow, pc, user_input, calls, response, extraction,
                   event_details, route_result, branch_result, ret>>
    /\ UNCHANGED <<endpointVars, toolsVars, retrievalVars>>

\* the event loop resumes the coroutine: the rest of gemini_parse_async
\* runs and the task resolves.  The loop reaches it only after it has
\* started every task gather created.
BranchResume(b) ==
    /\ flow = "parallel" /\ pc = "gather"
    /\ branch[b] = "replied"
    /\ \A o \in Branches : branch[o] # "created"
    /\ branch_result' =
         [branch_result EXCEPT
            ![b] = {gemini_parse_async(branch_response[b], ResponseModel(b))}]
    /\ branch' = [branch EXCEPT ![b] = "resolved"]
    /\ UNCHANGED <<flow, pc, user_input, calls, response, extraction,
                   event_details, route_result, branch_response, ret>>
    /\ UNCHANGED <<endpointVars, toolsVars, retrievalVars>>

\* calendar_check, security_check = await asyncio.gather(...), then the rest
\* of validate_request
ValidateJoin ==
    /\ flow = "parallel" /\ pc = "gather"
    /\ gather_done(branch)
    /\ LET res == validate_request_tail(branch_result["calendar"],
                                        branch_result["security"])
       IN  IF res.ok
           THEN pc' = "returned" /\ ret' = {res.val}
           ELSE pc' = "raised" /\ ret' = None
    /\ UNCHANGED <<flow, user_input, calls, response, extraction, event_details,
                   route_result, branch, branch_response, branch_result>>
    /\ UNCHANGED <<endpointVars, toolsVars, retrievalVars>>

-----------------------------------------------------------------------------
(* 3-speech-to-text/app/endpoint.py: the webhook *)

\* WEBHOOK_SECRET = os.getenv("WEBHOOK_SECRET"): unset, set to the empty
\* string, or set to a secret
WebhookSecrets == {None, {""}, {"s3cret"}}

\* keys a sender may sign with: the configured secret or a guess
Keys == {"s3cret", "guess"}

\* JSON objects AssemblyAI, or anyone else, may post; a JSON string is a
\* sequence of characters, a JSON null is None
WebhookDicts ==
    { [id |-> {"t1"}, status |-> {"completed"}, text |-> {<<"h", "i">>}],
      [id |-> {"t1"}, status |-> {"error"}],
      [id |-> {"t1"}, status |-> {"completed"}, text |-> None] }

\* the JSON text `[]`, and the Python list json.loads makes of it
JsonArray == [tok |-> "array"]
PyList == [list |-> <<>>]

\* raw request bodies: UTF-8 text holding a JSON object or a JSON array,
\* UTF-8 text that is not JSON, and bytes that are not UTF-8
Bodies ==
    { [utf8 |-> TRUE, text |-> <<Obj(d)>>] : d \in WebhookDicts }
    \cup { [utf8 |-> TRUE, text |-> <<JsonArray>>],
           [utf8 |-> TRUE, text |-> <<Prose>>],
           [utf8 |-> FALSE, text |-> <<>>] }

\* hmac.new(key, msg, hashlib.sha256).hexdigest(): a str of one symbol that
\* stands for the 64 hex digits; different (key, msg) give different digits.
\* `bit` is the bit of the str that was flipped afterwards: 0 for none, 1 for
\* a low bit (the str stays ASCII), 8 for the top bit of a character
hexdigest(key, msg) == <<[tok |-> "hex", key |-> key, msg |-> msg, bit |-> 0]>>
flipped(sig, bit) == [i \in 1 .. Len(sig) |-> [sig[i] EXCEPT !.bit = bit]]

\* values of the X-Aai-Signature header a request with body b may carry:
\* absent, empty, or a digest (of this or another body, under either key)
\* as computed or with one bit flipped
Signatures(b) ==
    {None, {<<>>}}
    \cup { {flipped(hexdigest(k, m), bit)} :
             k \in Keys, m \in Bodies, bit \in {0, 1, 8} }

Requests == UNION { { [body |-> b, signature |-> sg] : sg \in Signatures(b) } :
                    b \in Bodies }

NoRequest == [body |-> [utf8 |-> TRUE, text |-> <<>>], signature |-> None]

isascii(sig) == \A i \in 1 .. Len(sig) : sig[i].bit # 8

\* hmac.compare_digest(a, b) on two str: TypeError unless both are ASCII
compare_digest(a, b) ==
    IF isascii(a) /\ isascii(b) THEN Ok(a = b) ELSE Raise("TypeError")

\* fault: any signature is taken when one is present
_verify_webhook_any_signature(secret, raw_body, signature) ==
    IF secret = None \/ The(secret) = "" THEN Ok(TRUE)
    ELSE IF signature = None \/ The(signature) = <<>> THEN Ok(FALSE)
    ELSE Ok(TRUE)

\* def _verify_webhook(raw_body, signature), reading the global WEBHOOK_SECRET
_verify_webhook(secret, raw_body, signature) ==
    IF secret = None \/ The(secret) = "" THEN Ok(TRUE)
    ELSE IF signature = None \/ The(signature) = <<>> THEN Ok(FALSE)
    ELSE compare_digest(hexdigest(The(secret), raw_body), The(signature))

\* json.loads(raw.decode("utf-8"))
decode_body(raw) ==
    IF ~ raw.utf8 THEN Raise("UnicodeDecodeError")
    ELSE IF strip(raw.text) = <<JsonArray>> THEN Ok(PyList)
    ELSE json_loads(raw.text)

HTTPException(status_code, detail) ==
    [status_code |-> status_code, detail |-> detail]

\* the statements of assemblyai_webhook after the body has been decoded: a
\* list has no .get, and len(None) is a TypeError
webhook_response(d) ==
    LET status == IF "status" \in DOMAIN d THEN d.status ELSE None
        transcript_id == IF "id" \in DOMAIN d THEN d.id ELSE None
        text == IF "text" \in DOMAIN d THEN d.text ELSE {<<>>}
    IN  IF d = PyList THEN Raise("AttributeError")
        ELSE IF text = None THEN Raise("TypeError")
        ELSE Ok([ok |-> TRUE, id |-> transcript_id, status |-> status,
                 length |-> Len(The(text))])

\* a request arrives at POST /assemblyai/webhook: raw = await request.body(),
\* signature = request.headers.get("X-Aai-Signature")
WebhookReceive ==
    /\ flow = "idle"
    /\ flow' = "webhook"
    /\ pc' = "verify"
    /\ request' \in Requests
    /\ UNCHANGED <<ret, webhook_secret, data>>
    /\ UNCHANGED <<upstream, resp>>
    /\ UNCHANGED <<workflowVars, toolsVars, retrievalVars>>

\* if not _verify_webhook(raw, signature): raise HTTPException(401, ...)
WebhookVerify ==
    /\ flow = "webhook" /\ pc = "verify"
    /\ LET res == _verify_webhook(webhook_secret, request.body, request.signature)
       IN  IF ~ res.ok
           THEN pc' = "raised" /\ ret' = None
           ELSE IF ~ res.val
           THEN /\ pc' = "http_401"
                /\ ret' = {HTTPException(401, "Invalid webhook signature")}
           ELSE pc' = "decode" /\ ret' = ret
    /\ UNCHANGED <<flow, webhook_secret, request, data>>
    /\ UNCHANGED <<upstream, resp>>
    /\ UNCHANGED <<workflowVars, toolsVars, retrievalVars>>

\* try: data = json.loads(raw.decode("utf-8"))
\* except Exception: raise HTTPException(400, ...)
WebhookDecode ==
    /\ flow = "webhook" /\ pc = "decode"
    /\ LET res == decode_body(request.body)
       IN  IF res.ok
           THEN pc' = "read" /\ data' = {res.val} /\ ret' = ret
           ELSE /\ pc' = "http_400"
                /\ data' = data
                /\ ret' = {HTTPException(400, "Invalid JSON")}
    /\ UNCHANGED <<flow, webhook_secret, request>>
    /\ UNCHANGED <<upstream, resp>>
    /\ UNCHANGED <<workflowVars, toolsVars, retrievalVars>>

\* the data.get(...) reads and the return statement
WebhookRespond ==
    /\ flow = "webhook" /\ pc = "read"
    /\ LET res == webhook_response(The(data))
       IN  IF res.ok
           THEN pc' = "returned" /\ ret' = {res.val}
           ELSE pc' = "raised" /\ ret' = None
    /\ UNCHANGED <<flow, webhook_secret, request, data>>
    /\ UNCHANGED <<upstream, resp>>
    /\ UNCHANGED <<workflowVars, toolsVars, retrievalVars>>

\* transcribe_by_file

UploadEndpoint == "https://api.assemblyai.com/v2/upload"
TranscriptEndpoint == "https://api.assemblyai.com/v2/transcript"

\* a request sent to AssemblyAI; audio_url is the field of the JSON body, None
\* for the upload, whose body is the file
UpstreamRequest(method, url, audio_url) ==
    [method |-> method, url |-> url, audio_url |-> audio_url]

\* a response as client.stream hands it over: status and headers received,
\* the body not yet read
StreamResponse(status_code, content) ==
    [status_code |-> status_code, is_read |-> FALSE, content |-> content]

\* what the upload can come to: no response (a transport error), a success
\* carrying {"upload_url": ...}, or an error status with an error text
UploadOutcomes ==
    { Raise("ConnectError") }
    \cup { Ok(StreamResponse(st, [upload_url |-> "https://cdn.assemblyai.com/upload/a1"])) :
             st \in {200, 299} }
    \cup { Ok(StreamResponse(st, [error |-> "bad file"])) : st \in {300, 500} }

\* what the transcript-job request can come to
JobOutcomes ==
    { Raise("ConnectError"),
      Ok([status_code |-> 200, is_read |-> TRUE,
          content |-> [id |-> "t1", status |-> "queued"]]),
      Ok([status_code |-> 400, is_read |-> TRUE,
          content |-> [error |-> "bad request"]]) }

\* httpx Response.json(): parses Response.content, which raises
\* ResponseNotRead on a streamed response whose body has not been read
response_json(r) ==
    IF ~ r.is_read THEN Raise("ResponseNotRead") ELSE Ok(r.content)

\* `await x` where x is the outcome of a plain call: the exception of the
\* call propagates; a dict is not awaitable
await_value(x) ==
    IF ~ x.ok THEN x ELSE Raise("TypeError")

TranscribeByFileResponse(id, status) == [id |-> id, status |-> status]

\* a file arrives at POST /transcribe/file
TranscribeStart ==
    /\ flow = "idle"
    /\ flow' = "transcribe"
    /\ pc' = "upload"
    /\ UNCHANGED <<ret, webhook_secret, request, data, upstream, resp>>
    /\ UNCHANGED <<workflowVars, toolsVars, retrievalVars>>

\* async with client.stream("POST", upload_url, ...) as resp:
TranscribeUpload ==
    /\ flow = "transcribe" /\ pc = "upload"
    /\ upstream' = Append(upstream, UpstreamRequest("POST", UploadEndpoint, None))
    /\ \E o \in UploadOutcomes :
         IF o.ok
         THEN resp' = {o.val} /\ pc' = "uploaded"
         ELSE resp' = resp /\ pc' = "raised"
    /\ UNCHANGED <<flow, ret, webhook_secret, request, data>>
    /\ UNCHANGED <<workflowVars, toolsVars, retrievalVars>>

\* the body of the `async with` and the statements after it: the status
\* check, data = await resp.json(), the transcript-job request, the answer
TranscribeCreate ==
    /\ flow = "transcribe" /\ pc = "uploaded"
    /\ \E j \in JobOutcomes :
         LET r == The(resp)
             read == await_value(response_json(r))
         IN  IF r.status_code >= 300
             THEN /\ pc' = "http_502"
                  /\ ret' = {HTTPException(502, "Upload failed: " \o r.content.error)}
                  /\ upstream' = upstream
             ELSE IF ~ read.ok
             THEN /\ pc' = "raised"
                  /\ ret' = None
                  /\ upstream' = upstream
             ELSE /\ upstream' = Append(upstream,
                                   UpstreamRequest("POST", TranscriptEndpoint,
                                                   {read.val.upload_url}))
                  /\ IF ~ j.ok
                     THEN pc' = "raised" /\ ret' = None
                     ELSE IF j.val.status_code >= 300
                     THEN /\ pc' = "http_502"
                          /\ ret' = {HTTPException(502, "AssemblyAI error: "
                                                        \o j.val.content.error)}
                     ELSE /\ pc' = "returned"
                          /\ ret' = {TranscribeByFileResponse(j.val.content.id,
                                                              j.val.content.status)}
    /\ UNCHANGED <<flow, webhook_secret, request, data, resp>>
    /\ UNCHANGED <<workflowVars, toolsVars, retrievalVars>>

-----------------------------------------------------------------------------
(* introduction/tools.py *)

\* the parts of a model reply: text, or a request to call a function
TextPart(t) == [text |-> t]
FunctionCallPart(name, args) == [function_call |-> [name |-> name, args |-> args]]

\* the coordinates of the user message, in ten-thousandths of a degree
Paris == [latitude |-> 488566, longitude |-> 23522]

\* replies to the first message: no parts, text, a function call (get_weather
\* with both coordinates or without the longitude, or a function the caller
\* does not have), and text and function calls together
FirstReplies ==
    { <<>>,
      <<TextPart("Please give me coordinates.")>>,
      <<FunctionCallPart("get_weather", Paris)>>,
      <<FunctionCallPart("get_weather", [latitude |-> 488566])>>,
      <<FunctionCallPart("get_forecast", Paris)>>,
      <<TextPart("Let me check."), FunctionCallPart("get_weather", Paris)>>,
      <<FunctionCallPart("get_forecast", Paris),
        FunctionCallPart("get_weather", Paris)>> }

\* replies to the function response
FollowUpReplies ==
    { <<>>,
      <<TextPart("It is sunny in Paris.")>>,
      <<TextPart("It is sunny"), TextPart(" in Paris.")>>,
      <<FunctionCallPart("get_weather", Paris)>> }

\* weather_scenarios of get_weather; temperatures and speeds in tenths
weather_scenarios ==
    << [temperature_2m |-> 225, wind_speed_10m |-> 150, conditions |-> "sunny"],
       [temperature_2m |-> 182, wind_speed_10m |-> 85, conditions |-> "partly_cloudy"],
       [temperature_2m |-> 127, wind_speed_10m |-> 220, conditions |-> "rainy"],
       [temperature_2m |-> 289, wind_speed_10m |-> 50, conditions |-> "clear"] >>

\* values of hash(f"{latitude}_{longitude}"): str hashes are salted per
\* process, so any value may come out
Hashes == 0 .. 3

\* def get_weather(latitude, longitude), given the hash of the two
get_weather(latitude, longitude, h) ==
    weather_scenarios[(h % Len(weather_scenarios)) + 1]

\* function_args.get(key)
args_get(args, key) == IF key \in DOMAIN args THEN {args[key]} ELSE None

\* the loop over response.parts: the first part with a function call, if any
first_function_call(parts) ==
    LET requests == SelectSeq(parts, LAMBDA part : "function_call" \in DOMAIN part)
    IN  IF requests = <<>> THEN None ELSE {Head(requests).function_call}

\* fault: the tool is run whatever function the model asked for
should_call_get_weather_any_name(parts) ==
    first_function_call(parts) # None

\* if should_call_function and function_name == "get_weather"
should_call_get_weather(parts) ==
    /\ first_function_call(parts) # None
    /\ The(first_function_call(parts)).name = "get_weather"

\* response.text of the SDK: the text parts joined; ValueError when there is
\* no part or when a part is not text
response_text(parts) ==
    IF parts = <<>> \/ first_function_call(parts) # None
    THEN Raise("ValueError")
    ELSE Ok([i \in 1 .. Len(parts) |-> parts[i].text])

UserMessage == "What is the current weather at latitude 48.8566 and longitude 2.3522?"

\* the turns chat.send_message appends to the history when it succeeds
UserTurn(content) == [role |-> "user", content |-> content]
ModelTurn(parts) == [role |-> "model", parts |-> parts]
FunctionResponse(name, result) ==
    [function_response |-> [name |-> name, response |-> result]]

\* run_weather_assistant() is called: the model and the chat are created
ToolStart ==
    /\ flow = "idle"
    /\ flow' = "tool"
    /\ pc' = "send"
    /\ chat' = <<>>
    /\ UNCHANGED <<ret, tool_response, tool_runs>>
    /\ UNCHANGED <<workflowVars, endpointVars, retrievalVars>>

\* response = chat.send_message(user_message), the inspection of its parts,
\* and the else branch `return response.text`; the outer except returns
\* f"Error: {e}"
ToolFirstTurn ==
    /\ flow = "tool" /\ pc = "send"
    /\ \/ /\ pc' = "returned"
          /\ ret' = {<<"Error: ", "ProviderError">>}
          /\ UNCHANGED <<chat, tool_response>>
       \/ \E parts \in FirstReplies :
            /\ chat' = chat \o <<UserTurn(UserMessage), ModelTurn(parts)>>
            /\ tool_response' = {parts}
            /\ IF should_call_get_weather(parts)
               THEN pc' = "execute" /\ ret' = ret
               ELSE /\ pc' = "returned"
                    /\ ret' = IF response_text(parts).ok
                              THEN {response_text(parts).val}
                              ELSE {<<"Error: ", response_text(parts).exc>>}
    /\ UNCHANGED <<flow, tool_runs>>
    /\ UNCHANGED <<workflowVars, endpointVars, retrievalVars>>

\* weather_result = get_weather(function_args.get('latitude'),
\*                              function_args.get('longitude'))
ToolExecute ==
    /\ flow = "tool" /\ pc = "execute"
    /\ \E h \in Hashes :
         LET function_args == The(first_function_call(The(tool_response))).args
             latitude == args_get(function_args, "latitude")
             longitude == args_get(function_args, "longitude")
         IN  tool_runs' = Append(tool_runs,
                 [name |-> "get_weather",
                  latitude |-> latitude, longitude |-> longitude,
                  result |-> get_weather(latitude, longitude, h)])
    /\ pc' = "follow_up"
    /\ UNCHANGED <<flow, ret, chat, tool_response>>
    /\ UNCHANGED <<workflowVars, endpointVars, retrievalVars>>

\* follow_up_response = chat.send_message({"function_response": ...}) and
\* `return follow_up_response.text`; the inner except returns
\* f"Error getting weather data: {func_error}"
ToolFollowUp ==
    /\ flow = "tool" /\ pc = "follow_up"
    /\ LET weather_result == tool_runs[Len(tool_runs)].result
       IN  \/ /\ ret' = {<<"Error getting weather data: ", "ProviderError">>}
              /\ chat' = chat
           \/ \E parts \in FollowUpReplies :
                /\ chat' = chat \o
                     << UserTurn(FunctionResponse("get_weather", weather_result)),
                        ModelTurn(parts) >>
                /\ ret' = IF response_text(parts).ok
                          THEN {response_text(parts).val}
                          ELSE {<<"Error getting weather data: ",
                                  response_text(parts).exc>>}
    /\ pc' = "returned"
    /\ UNCHANGED <<flow, tool_response, tool_runs>>
    /\ UNCHANGED <<workflowVars, endpointVars, retrievalVars>>

-----------------------------------------------------------------------------
(* introduction/retrieval.py *)

UpperCase == "ABCDEFGHIJKLMNOPQRSTUVWXYZ"
LowerCase == "abcdefghijklmnopqrstuvwxyz"

\* str.lower() on one character
lower_char(c) ==
    IF \E i \in 1 .. Len(UpperCase) : SubSeq(UpperCase, i, i) = c
    THEN LET i == CHOOSE i \in 1 .. Len(UpperCase) : SubSeq(UpperCase, i, i) = c
         IN  SubSeq(LowerCase, i, i)
    ELSE c

\* str.lower()
RECURSIVE lower(_)
lower(str) ==
    IF str = "" THEN ""
    ELSE lower_char(SubSeq(str, 1, 1)) \o lower(SubSeq(str, 2, Len(str)))

\* `sub in str`
contains(sub, str) ==
    \E i \in 1 .. (Len(str) - Len(sub) + 1) : SubSeq(str, i, i + Len(sub) - 1) = sub

\* records a kb.json may hold: complete ones, two that answer the same
\* question, one without a question and one without an answer
ReturnsRecord ==
    [id |-> 1, question |-> "What is the return policy?",
     answer |-> "Items can be returned within 30 days."]
ReturnsRecordOld ==
    [id |-> 2, question |-> "Return policy for sale items",
     answer |-> "Sale items are final."]
ShippingRecord ==
    [id |-> 3, question |-> "Do you ship internationally?",
     answer |-> "We ship to over 50 countries."]
NoQuestionRecord == [id |-> 4, answer |-> "Cash only."]
NoAnswerRecord == [id |-> 5, question |-> "What payment methods do you accept?"]

KbRecordLists ==
    { <<>>,
      <<ReturnsRecord, ShippingRecord>>,
      <<ShippingRecord, ReturnsRecord, ReturnsRecordOld>>,
      <<ReturnsRecordOld, ReturnsRecord>>,
      <<NoQuestionRecord, ReturnsRecord>>,
      <<ReturnsRecord, NoQuestionRecord>>,
      <<NoAnswerRecord>> }

\* states of the file kb.json when search_kb opens it: not there, not
\* readable, not JSON, JSON without "records", or JSON with a list of records
KbFiles ==
    { [state |-> "missing"], [state |-> "unreadable"], [state |-> "malformed"],
      [state |-> "json", content |-> [version |-> 1]] }
    \cup { [state |-> "json", content |-> [records |-> rs]] : rs \in KbRecordLists }

\* open("kb.json") and json.load(f)
load_kb(file) ==
    CASE file.state = "missing" -> Raise("FileNotFoundError")
      [] file.state = "unreadable" -> Raise("PermissionError")
      [] file.state = "malformed" -> Raise("JSONDecodeError")
      [] OTHER -> Ok(file.content)

NotFound == [answer |-> "I couldn't find information about that in our knowledge base."]
NotAvailable == [answer |-> "Knowledge base not available."]
AccessError(e) == [answer |-> "Error accessing knowledge base: " \o e]

\* the for loop of search_kb over records[i ..]: the first record whose
\* question holds the query, KeyError at a record without a question
RECURSIVE scan_records(_, _, _)
scan_records(query, records, i) ==
    IF i > Len(records) THEN Ok(NotFound)
    ELSE IF "question" \notin DOMAIN records[i] THEN Raise("KeyError")
    ELSE IF contains(lower(query), lower(records[i].question)) THEN Ok(records[i])
    ELSE scan_records(query, records, i + 1)

\* the try block of search_kb
search_kb_body(query, file) ==
    LET knowledge_base == load_kb(file)
    IN  IF ~ knowledge_base.ok THEN knowledge_base
        ELSE IF "records" \notin DOMAIN knowledge_base.val THEN Raise("KeyError")
        ELSE scan_records(query, knowledge_base.val.records, 1)

\* fault: only the missing file is handled
search_kb_file_not_found_only(query, file) ==
    LET body == search_kb_body(query, file)
    IN  IF body.ok THEN body
        ELSE IF body.exc = "FileNotFoundError" THEN Ok(NotAvailable)
        ELSE body

\* def search_kb(question), given the state of kb.json
search_kb(query, file) ==
    LET body == search_kb_body(query, file)
    IN  IF body.ok THEN body
        ELSE IF body.exc = "FileNotFoundError" THEN Ok(NotAvailable)
        ELSE Ok(AccessError(body.exc))

kb_keywords == <<"return", "shipping", "payment", "policy", "accept", "ship">>

\* is_kb_question = any(keyword in question.lower() for keyword in kb_keywords)
is_kb_question(q) ==
    \E i \in 1 .. Len(kb_keywords) : contains(kb_keywords[i], lower(q))

\* the two prompts of ask_with_retrieval and the bare question
OfficialAnswerPrompt(answer, q) ==
    [template |-> "official answer from our knowledge base",
     answer |-> {answer}, question |-> q]
GeneralPrompt(q) ==
    [template |-> "knowledge base doesn't have specific information",
     answer |-> None, question |-> q]
DirectPrompt(q) == [template |-> "question", answer |-> None, question |-> q]

\* fault: the official-answer prompt is used for whatever search_kb returned
build_prompt_always_official(kb_result, q) ==
    IF "answer" \in DOMAIN kb_result
    THEN OfficialAnswerPrompt(kb_result.answer, q)
    ELSE GeneralPrompt(q)

\* if "answer" in kb_result and "I couldn't find" not in kb_result["answer"]
build_prompt(kb_result, q) ==
    IF "answer" \in DOMAIN kb_result
       /\ ~ contains("I couldn't find", kb_result.answer)
    THEN OfficialAnswerPrompt(kb_result.answer, q)
    ELSE GeneralPrompt(q)

Questions ==
    { "What is the return policy?", "RETURN POLICY", "Do you ship to Mars?",
      "Tell me a joke" }

KbCall(query, file, result) == [question |-> query, file |-> file, result |-> result]

\* response.text as one str: the texts of the parts joined
RECURSIVE joined(_)
joined(texts) ==
    IF texts = <<>> THEN "" ELSE Head(texts) \o joined(Tail(texts))

\* replies of model.generate_content(prompt): text, or a reply without text
GenerateReplies ==
    { <<TextPart("You can return items "), TextPart("within 30 days.")>>, <<>> }

\* ask_with_retrieval(question) is called
AskStart ==
    /\ flow = "idle"
    /\ flow' = "retrieval"
    /\ pc' = "retrieve"
    /\ question' \in Questions
    /\ UNCHANGED <<ret, kb_calls, prompt, kb_chat>>
    /\ UNCHANGED <<workflowVars, endpointVars, toolsVars>>

\* the keyword test, kb_result = search_kb(question) and the choice of prompt
AskRetrieve ==
    /\ flow = "retrieval" /\ pc = "retrieve"
    /\ IF is_kb_question(question)
       THEN \E file \in KbFiles :
              LET kb_result == search_kb(question, file)
              IN  IF kb_result.ok
                  THEN /\ kb_calls' = Append(kb_calls,
                                             KbCall(question, file, kb_result.val))
                       /\ prompt' = {build_prompt(kb_result.val, question)}
                       /\ pc' = "generate"
                  ELSE /\ kb_calls' = kb_calls
                       /\ prompt' = prompt
                       /\ pc' = "raised"
       ELSE /\ kb_calls' = kb_calls
            /\ prompt' = {DirectPrompt(question)}
            /\ pc' = "generate"
    /\ UNCHANGED <<flow, ret, question, kb_chat>>
    /\ UNCHANGED <<workflowVars, endpointVars, toolsVars>>

\* response = model.generate_content(prompt); return response.text, with no
\* try around either
AskGenerate ==
    /\ flow = "retrieval" /\ pc = "generate"
    /\ \/ pc' = "raised" /\ ret' = None
       \/ \E parts \in GenerateReplies :
            IF response_text(parts).ok
            THEN pc' = "returned" /\ ret' = {joined(response_text(parts).val)}
            ELSE pc' = "raised" /\ ret' = None
    /\ UNCHANGED <<flow, question, kb_calls, prompt, kb_chat>>
    /\ UNCHANGED <<workflowVars, endpointVars, toolsVars>>

\* the loop of ask_with_auto_tools over response.parts: the first part whose
\* function call names search_kb, if any
first_search_kb_call(parts) ==
    LET requests ==
            SelectSeq(parts, LAMBDA part :
                /\ "function_call" \in DOMAIN part
                /\ part.function_call.name = "search_kb")
    IN  IF requests = <<>> THEN None ELSE {Head(requests).function_call}

\* replies to the question: no parts, text, a call of search_kb with or
\* without its argument, a call of a function the caller does not have, alone
\* or before a call of search_kb
AutoReplies ==
    { <<>>,
      <<TextPart("Why did the chicken cross the road?")>>,
      <<FunctionCallPart("search_kb", [question |-> "return policy"])>>,
      <<FunctionCallPart("search_kb", [topic |-> "returns"])>>,
      <<FunctionCallPart("get_weather", Paris)>>,
      <<FunctionCallPart("get_weather", Paris),
        FunctionCallPart("search_kb", [question |-> "ship internationally"])>> }

\* ask_with_auto_tools(question) is called: the model and the chat are created
AutoStart ==
    /\ flow = "idle"
    /\ flow' = "retrieval"
    /\ pc' = "auto_send"
    /\ question' \in Questions
    /\ kb_chat' = <<>>
    /\ UNCHANGED <<ret, kb_calls, prompt>>
    /\ UNCHANGED <<workflowVars, endpointVars, toolsVars>>

\* response = chat.send_message(question), the loop over its parts, and
\* `return response.text` when search_kb was not asked for; the except
\* returns f"Error: {str(e)}"
AutoFirstTurn ==
    /\ flow = "retrieval" /\ pc = "auto_send"
    /\ \/ /\ pc' = "returned"
          /\ ret' = {"Error: " \o "ProviderError"}
          /\ kb_chat' = kb_chat
       \/ \E parts \in AutoReplies :
            /\ kb_chat' = kb_chat \o <<UserTurn(question), ModelTurn(parts)>>
            /\ IF first_search_kb_call(parts) # None
               THEN pc' = "auto_execute" /\ ret' = ret
               ELSE /\ pc' = "returned"
                    /\ ret' = IF response_text(parts).ok
                              THEN {joined(response_text(parts).val)}
                              ELSE {"Error: " \o response_text(parts).exc}
    /\ UNCHANGED <<flow, question, kb_calls, prompt>>
    /\ UNCHANGED <<workflowVars, endpointVars, toolsVars>>

\* kb_result = search_kb(part.function_call.args.get('question', ''))
AutoExecute ==
    /\ flow = "retrieval" /\ pc = "auto_execute"
    /\ \E file \in KbFiles :
         LET args == The(first_search_kb_call(kb_chat[Len(kb_chat)].parts)).args
             query == IF "question" \in DOMAIN args THEN args.question ELSE ""
             kb_result == search_kb(query, file)
         IN  IF kb_result.ok
             THEN /\ kb_calls' = Append(kb_calls, KbCall(query, file, kb_result.val))
                  /\ pc' = "auto_follow_up"
                  /\ ret' = ret
             ELSE /\ kb_calls' = kb_calls
                  /\ pc' = "returned"
                  /\ ret' = {"Error: " \o kb_result.exc}
    /\ UNCHANGED <<flow, question, prompt, kb_chat>>
    /\ UNCHANGED <<workflowVars, endpointVars, toolsVars>>

\* follow_up = chat.send_message({"function_response": ...}) and
\* `return follow_up.text`
AutoFollowUp ==
    /\ flow = "retrieval" /\ pc = "auto_follow_up"
    /\ LET kb_result == kb_calls[Len(kb_calls)].result
       IN  \/ /\ ret' = {"Error: " \o "ProviderError"}
              /\ kb_chat' = kb_chat
           \/ \E parts \in GenerateReplies :
                /\ kb_chat' = kb_chat \o
                     << UserTurn(FunctionResponse("search_kb", kb_result)),
                        ModelTurn(parts) >>
                /\ ret' = IF response_text(parts).ok
                          THEN {joined(response_text(parts).val)}
                          ELSE {"Error: " \o response_text(parts).exc}
    /\ pc' = "returned"
    /\ UNCHANGED <<flow, question, kb_calls, prompt>>
    /\ UNCHANGED <<workflowVars, endpointVars, toolsVars>>

-----------------------------------------------------------------------------

Init ==
    /\ flow = "idle"
    /\ pc = "idle"
    /\ user_input = ""
    /\ calls = <<>>
    /\ response = NoResponse
    /\ extraction = None
    /\ event_details = None
    /\ route_result = None
    /\ branch = [b \in Branches |-> "idle"]
    /\ branch_response = [b \in Branches |-> NoResponse]
    /\ branch_result = [b \in Branches |-> None]
    /\ ret = None
    /\ webhook_secret \in WebhookSecrets
    /\ request = NoRequest
    /\ data = None
    /\ upstream = <<>>
    /\ resp = None
    /\ chat = <<>>
    /\ tool_response = None
    /\ tool_runs = <<>>
    /\ question = ""
    /\ kb_calls = <<>>
    /\ prompt = None
    /\ kb_chat = <<>>

\* the orchestrator has returned
Done ==
    pc \in {"returned", "gate_failed", "unsupported", "except", "raised",
            "http_401", "http_400", "http_502"}

\* the caller takes the returned value; the next request starts afresh
Return ==
    /\ flow # "idle" /\ Done
    /\ flow' = "idle"
    /\ pc' = "idle"
    /\ user_input' = ""
    /\ calls' = <<>>
    /\ response' = NoResponse
    /\ extraction' = None
    /\ event_details' = None
    /\ route_result' = None
    /\ branch' = [b \in Branches |-> "idle"]
    /\ branch_response' = [b \in Branches |-> NoResponse]
    /\ branch_result' = [b \in Branches |-> None]
    /\ ret' = None
    /\ webhook_secret' = webhook_secret
    /\ request' = NoRequest
    /\ data' = None
    /\ upstream' = <<>>
    /\ resp' = None
    /\ chat' = <<>>
    /\ tool_response' = None
    /\ tool_runs' = <<>>
    /\ question' = ""
    /\ kb_calls' = <<>>
    /\ prompt' = None
    /\ kb_chat' = <<>>

Next ==
    \/ ChainStart
    \/ ChainExtract
    \/ ChainGate
    \/ ChainParse
    \/ ChainConfirm
    \/ RoutingStart
    \/ RoutingRoute
    \/ RoutingGate
    \/ RoutingDispatch
    \/ HandleNewEvent
    \/ HandleModifyEvent
    \/ ValidateStart
    \/ \E b \in Branches : BranchStart(b)
    \/ \E b \in Branches : ModelReply(b)
    \/ \E b \in Branches : BranchResume(b)
    \/ ValidateJoin
    \/ WebhookReceive
    \/ WebhookVerify
    \/ WebhookDecode
    \/ WebhookRespond
    \/ TranscribeStart
    \/ TranscribeUpload
    \/ TranscribeCreate
    \/ ToolStart
    \/ ToolFirstTurn
    \/ ToolExecute
    \/ ToolFollowUp
    \/ AskStart
    \/ AskRetrieve
    \/ AskGenerate
    \/ AutoStart
    \/ AutoFirstTurn
    \/ AutoExecute
    \/ AutoFollowUp
    \/ Return

Spec == Init /\ [][Next]_vars

\* validate_request alone, with the scheduling the event loop and the worker
\* threads provide: while a request is running, one of its enabled steps (a
\* created task starts, a model call returns or raises, a coroutine whose
\* call has finished is resumed, the gather is resumed) eventually happens
ParallelNext ==
    \/ ValidateStart
    \/ \E b \in Branches : BranchStart(b)
    \/ \E b \in Branches : ModelReply(b)
    \/ \E b \in Branches : BranchResume(b)
    \/ ValidateJoin
    \/ Return

\* one step of a running validate_request
ParallelStep ==
    \/ \E b \in Branches : BranchStart(b)
    \/ \E b \in Branches : ModelReply(b)
    \/ \E b \in Branches : BranchResume(b)
    \/ ValidateJoin

SpecParallel ==
    /\ Init
    /\ [][ParallelNext]_vars
    /\ WF_vars(ParallelStep)

-----------------------------------------------------------------------------
(* Properties *)

Handlers == {"handle_new_event", "handle_modify_event"}

\* the stages whose model call has been issued for this request
Invoked(stage) == \E i \in 1 .. Len(calls) : calls[i].stage = stage

\* the routing flow has selected handler h: it is running or has run
Routed(h) == pc = h \/ Invoked(h)

\* C1: in the prompt chain the gate passes iff is_calendar_event is true and
\* the confidence is strictly greater than 0.6; a confidence of exactly 0.6
\* fails the gate, so parse_event_details and generate_confirmation are not
\* invoked.
C1_GateStrictlyAbove ==
    (flow = "chain" /\ extraction # None /\ pc # "gate") =>
        LET e == The(extraction)
            passes == e.is_calendar_event /\ e.confidence_score > ChainThreshold
        IN  /\ (pc # "gate_failed") <=> passes
            /\ ~ passes => /\ ~ Invoked("parse_event_details")
                           /\ ~ Invoked("generate_confirmation")

\* C2: in the chain and in the routing flow, the value returned when the gate
\* fails is the non-error "not applicable" value (None), and the value
\* returned when a stage fails operationally is a different one, so the
\* caller can tell the two apart from the return value.
C2_GateFailureDistinctFromError ==
    (flow \in {"chain", "routing"} /\ Done) =>
        /\ pc = "gate_failed" => ret = None
        /\ pc = "except" => ret # None

\* the outcome of the stage named `stage` on model response r
StageOutcome(stage, r) ==
    CASE stage = "extract_event_info" -> extract_event_info(r)
      [] stage = "parse_event_details" -> parse_event_details(r)
      [] stage = "generate_confirmation" -> generate_confirmation(r)
      [] stage = "route_calendar_request" -> route_calendar_request(r)
      [] stage = "handle_new_event" -> handle_new_event(r)
      [] stage = "handle_modify_event" -> handle_modify_event(r)

\* C3: when a stage of the chain or of the routing flow fails (provider error
\* or malformed output), the flow halts with that stage's call as the last
\* model call and reports a structured error payload, not None.
C3_StageFailureReported ==
    (flow \in {"chain", "routing"} /\ pc = "except") =>
        /\ calls # <<>>
        /\ ~ StageOutcome(calls[Len(calls)].stage, response).ok
        /\ ret # None

\* the handler the router must select for a category and a confidence
Selection(category, confidence, threshold) ==
    IF confidence < threshold THEN "none"
    ELSE IF category = "new_event" THEN "handle_new_event"
    ELSE IF category = "modify_event" THEN "handle_modify_event"
    ELSE "none"

\* C4: router dispatch is a function of (category, confidence, threshold):
\* with threshold 0.7, new_event at 0.75 goes to the new-event handler,
\* new_event at 0.65 goes to no handler and the caller gets None; equal
\* classifications always select the same handler or none.
C4_RouterDispatch ==
    (flow = "routing" /\ route_result # None /\ pc \notin {"gate", "dispatch"}) =>
        LET rr == The(route_result)
            sel == Selection(rr.request_type, rr.confidence_score, RoutingThreshold)
        IN  /\ \A h \in Handlers : Routed(h) <=> sel = h
            /\ (rr.request_type = "new_event" /\ rr.confidence_score = 750)
                   => Routed("handle_new_event")
            /\ (rr.request_type = "new_event" /\ rr.confidence_score = 650)
                   => /\ \A h \in Handlers : ~ Routed(h)
                      /\ pc = "gate_failed"
                      /\ ret = None

C4_Witness ==
    /\ flow = "routing" /\ route_result # None
    /\ The(route_result).request_type = "new_event"
    /\ The(route_result).confidence_score = 750
    /\ Invoked("handle_new_event")
    /\ pc = "returned"

\* the three cases in which the router ends in Unsupported
ClassificationFailed == flow = "routing" /\ pc = "except" /\ route_result = None
LowConfidence ==
    /\ flow = "routing" /\ Done /\ route_result # None
    /\ The(route_result).confidence_score < RoutingThreshold
CatchAll ==
    /\ flow = "routing" /\ Done /\ route_result # None
    /\ The(route_result).request_type = "other"

C6_OneHandlerPerCategory ==
    flow = "routing" =>
        /\ Cardinality({ i \in 1 .. Len(calls) : calls[i].stage \in Handlers }) <= 1
        /\ \A h \in Handlers :
             Routed(h) =>
                /\ route_result # None
                /\ calls[1].stage = "route_calendar_request"
                /\ ~ (The(route_result).confidence_score < RoutingThreshold)
                /\ h = "handle_new_event"
                       => The(route_result).request_type = "new_event"
                /\ h = "handle_modify_event"
                       => The(route_result).request_type = "modify_event"
        /\ \A i \in 1 .. Len(calls) :
             calls[i].stage \in Handlers => i = 2

C6_Witness ==
    /\ flow = "routing"
    /\ Invoked("handle_modify_event")
    /\ The(route_result).request_type = "modify_event"

\* the combinator of validate_request has been evaluated
CombinatorEvaluated == flow = "parallel" /\ pc \in {"returned", "raised"}

\* C7: the acceptance combinator of validate_request is evaluated only after
\* both branches have resolved, whatever the order of their completion: no
\* state has is_valid computed while a branch is still pending, and the
\* combinator sees only resolved results.
C7_FanInBarrier ==
    CombinatorEvaluated =>
        /\ \A b \in Branches : branch[b] = "resolved" /\ branch_result[b] # None
        /\ pc = "returned"
        /\ The(ret).calendar_check = The(branch_result["calendar"])
        /\ The(ret).security_check = The(branch_result["security"])

C7_Witness ==
    /\ CombinatorEvaluated
    /\ The(ret).is_valid
    /\ \A b \in Branches : branch[b] = "resolved"

\* branch b's model call raised, or returned prose instead of JSON
BranchFailed(b) ==
    branch_response[b].raises \/ branch_response[b].text = <<Prose>>

\* branch b's model call returned the complete, in-range JSON object d, bare
SentPlain(b, d) ==
    /\ ~ branch_response[b].raises
    /\ branch_response[b].text = <<Obj(d)>>

ConservativeCalendar == [is_calendar_request |-> FALSE, confidence_score |-> 0]
ConservativeSecurity == [is_safe |-> FALSE, risk_flags |-> <<"Processing error">>]

\* C8: a branch whose model call raises, or returns unparseable output, does
\* not abort its sibling: it resolves to its conservative default, the
\* sibling's own result is unchanged in the outcome, and acceptance is false.
C8_BranchFailureIsolated ==
    (flow = "parallel" /\ Done) =>
        /\ pc = "returned"
        /\ BranchFailed("calendar") =>
             /\ The(ret).calendar_check = ConservativeCalendar
             /\ The(ret).security_check = The(branch_result["security"])
             /\ \A d \in SecurityDicts :
                  (SentPlain("security", d) /\ "risk_flags" \in DOMAIN d)
                      => The(ret).security_check = d
             /\ The(ret).is_valid = FALSE
        /\ BranchFailed("security") =>
             /\ The(ret).security_check = ConservativeSecurity
             /\ The(ret).calendar_check = The(branch_result["calendar"])
             /\ \A d \in CalendarValidationDicts :
                  (/\ SentPlain("calendar", d)
                   /\ "confidence_score" \in DOMAIN d
                   /\ d.confidence_score \in ConfidenceMin .. ConfidenceMax)
                      => The(ret).calendar_check = d
             /\ The(ret).is_valid = FALSE

C8_Witness ==
    /\ flow = "parallel" /\ pc = "returned"
    /\ branch_response["security"].raises
    /\ SentPlain("calendar", [is_calendar_request |-> TRUE, confidence_score |-> 900])
    /\ The(ret).calendar_check = [is_calendar_request |-> TRUE, confidence_score |-> 900]
    /\ The(ret).is_valid = FALSE

\* C9: is_valid is true iff branch A's is_calendar_request is true and its
\* confidence strictly exceeds 0.7 and branch B's is_safe is true.
C9_AcceptanceIsConjunction ==
    (flow = "parallel" /\ pc = "returned") =>
        LET a == The(branch_result["calendar"])
            b == The(branch_result["security"])
        IN  The(ret).is_valid <=>
               (/\ a.is_calendar_request = TRUE
                /\ a.confidence_score > ValidationThreshold
                /\ b.is_safe = TRUE)

C9_Witness ==
    /\ flow = "parallel" /\ pc = "returned"
    /\ The(ret).is_valid
    /\ The(branch_result["calendar"]).confidence_score = ValidationThreshold + 1

\* C10 as claimed: if the security branch's risk_flags list is non-empty then
\* is_valid is false; an accepted outcome carrying risk flags is unreachable.
C10_RiskFlagsImplyRejection ==
    (flow = "parallel" /\ pc = "returned") =>
        (The(ret).security_check.risk_flags # <<>> => ~ The(ret).is_valid)

\* the security branch's model response was the JSON object d, in a form
\* gemini_parse_async accepts
SecuritySent(d) ==
    /\ ~ branch_response["security"].raises
    /\ branch_response["security"].text \in
          { <<Obj(d)>>, <<Space, Obj(d), Space>>,
            <<Fence, JsonTag, Space, Obj(d), Space, Fence>> }

\* C10 amended: if risk_flags is non-empty then is_valid is false, unless the
\* security branch's own model response declared is_safe=true together with
\* those flags; flags of an is_safe=false verdict and the flag of the error
\* default always imply rejection.
C10_RiskFlagsWithUnsafeImplyRejection ==
    (flow = "parallel" /\ pc = "returned") =>
        LET sc == The(ret).security_check
        IN  (sc.risk_flags # <<>> /\ The(ret).is_valid) =>
               \E d \in SecurityDicts :
                  /\ "risk_flags" \in DOMAIN d
                  /\ SecuritySent(d)
                  /\ d.is_safe = TRUE
                  /\ d.risk_flags = sc.risk_flags

C10_Witness ==
    /\ flow = "parallel" /\ pc = "returned"
    /\ The(ret).security_check.risk_flags = <<"injection">>
    /\ The(ret).security_check.is_safe
    /\ The(ret).is_valid

\* C11: the outcome of validate_request always carries the raw per-branch
\* evidence, accepted or rejected: calendar_check, security_check and details
\* equal the values the branches resolved to; with branch A at
\* is_calendar_request=true, confidence 0.9 and branch B at is_safe=false,
\* risk_flags=["injection"], is_valid is false and risk_flags has "injection".
C11_EvidenceCarried ==
    (flow = "parallel" /\ pc = "returned") =>
        LET a == The(branch_result["calendar"])
            b == The(branch_result["security"])
            out == The(ret)
        IN  /\ out.calendar_check = a
            /\ out.security_check = b
            /\ out.details.calendar_request = a.is_calendar_request
            /\ out.details.confidence_score = a.confidence_score
            /\ out.details.is_safe = b.is_safe
            /\ out.details.risk_flags = b.risk_flags
            /\ (/\ SentPlain("calendar",
                             [is_calendar_request |-> TRUE, confidence_score |-> 900])
                /\ SentPlain("security",
                             [is_safe |-> FALSE, risk_flags |-> <<"injection">>]))
                   => /\ out.is_valid = FALSE
                      /\ \E i \in 1 .. Len(out.details.risk_flags) :
                            out.details.risk_flags[i] = "injection"
                      /\ \E i \in 1 .. Len(out.security_check.risk_flags) :
                            out.security_check.risk_flags[i] = "injection"

C11_Witness ==
    /\ flow = "parallel" /\ pc = "returned"
    /\ SentPlain("calendar", [is_calendar_request |-> TRUE, confidence_score |-> 900])
    /\ SentPlain("security", [is_safe |-> FALSE, risk_flags |-> <<"injection">>])
    /\ The(ret).details.risk_flags = <<"injection">>

\* the guardrail of branch b has been launched on the request's input
Launched(b) ==
    \E i \in 1 .. Len(calls) :
        calls[i].stage = Guardrail(b) /\ calls[i].arg = user_input

\* no branch is cut short: while a branch is unresolved the group has not
\* returned, and every started branch was launched on the same user input
NoShortCircuit ==
    flow = "parallel" =>
        /\ \A b \in Branches :
             branch[b] \in {"awaiting", "replied", "resolved"} => Launched(b)
        /\ CombinatorEvaluated =>
             /\ pc = "returned"
             /\ \A b \in Branches : Launched(b) /\ branch[b] = "resolved"
        /\ (\E b \in Branches : branch[b] # "resolved") => pc = "gather"

\* C12: the parallel validation group never short-circuits: both branches
\* are launched against the same user input and both run to completion
\* before the combinator is applied, even when the first to finish has
\* failed or rejected; if every model call eventually returns or raises,
\* validate_request eventually returns an outcome.
C12_NoShortCircuitAndReturns ==
    /\ [] NoShortCircuit
    /\ (flow = "parallel") ~> (flow = "parallel" /\ pc = "returned")

C12_Witness ==
    /\ flow = "parallel" /\ pc = "returned"
    /\ branch_response["calendar"].raises
    /\ Launched("security")
    /\ ~ branch_response["security"].raises
    /\ The(ret).security_check.is_safe

\* C13: the outcome of validate_request is determined by the two branches'
\* model responses alone, whatever the order in which the branches start
\* and complete: each branch resolves from its own response only.
C13_OutcomeIndependentOfOrder ==
    (flow = "parallel") =>
        /\ \A b \in Branches :
             branch[b] = "resolved" =>
                branch_result[b] =
                    {gemini_parse_async(branch_response[b], ResponseModel(b))}
        /\ pc = "returned" =>
             ret = {validation_result(
                       gemini_parse_async(branch_response["calendar"],
                                          "CalendarValidation"),
                       gemini_parse_async(branch_response["security"],
                                          "SecurityCheck"))}

C13_Witness ==
    /\ flow = "parallel" /\ pc = "returned"
    /\ SentPlain("calendar", [is_calendar_request |-> TRUE, confidence_score |-> 701])
    /\ SentPlain("security", [is_safe |-> TRUE, risk_flags |-> <<>>])
    /\ The(ret).is_valid

\* a stage of the running request has failed: the except clause of the chain
\* or of the routing flow has run, or a branch of the parallel validation has
\* resolved to its default value
StageFailed ==
    \/ flow \in {"chain", "routing"} /\ pc = "except"
    \/ /\ flow = "parallel"
       /\ \E b \in Branches :
            /\ branch[b] = "resolved"
            /\ branch_result[b] = {default_response(ResponseModel(b))}

\* C14: nothing is retried.  In every flow each stage issues its model call
\* at most once per request (no two entries of `calls` name the same stage),
\* and once a stage has failed no further model call is issued for the
\* request: `calls` never grows again until the request has returned.
C14_NothingRetried ==
    /\ [](\A i, j \in 1 .. Len(calls) : calls[i].stage = calls[j].stage => i = j)
    /\ [][StageFailed => Len(calls') <= Len(calls)]_vars

\* the second stage of the chain failed after the first succeeded, and a
\* branch of the parallel validation failed
C14_Witness ==
    \/ flow = "chain" /\ pc = "except" /\ Len(calls) = 2
    \/ flow = "parallel" /\ StageFailed /\ Len(calls) = 2

\* r is a JSON object inside code-fence markers, with or without the json tag
Fenced(r) ==
    /\ ~ r.raises
    /\ Len(r.text) > 0
    /\ r.text[1] = Fence
    /\ \E i \in 1 .. Len(r.text) : r.text[i].tok = "obj"

\* the same JSON object sent without the fence
Unwrapped(r) ==
    [raises |-> FALSE,
     text |-> SelectSeq(r.text, LAMBDA x : x.tok = "obj")]

\* C15: a model response wrapped in code-fence markers, with or without the
\* json tag, gives in every flow the validation result its unwrapped JSON
\* text gives: the stage of the chain or of the routing flow that received it
\* fails iff it fails on the unwrapped text and yields the same record, and a
\* branch of the parallel validation resolves to the same record.
C15_FencedParsesAsUnwrapped ==
    /\ (flow \in {"chain", "routing"} /\ calls # <<>> /\ Fenced(response)) =>
          LET stage == calls[Len(calls)].stage
          IN  /\ StageOutcome(stage, response)
                    = StageOutcome(stage, Unwrapped(response))
              /\ (pc = "except") <=> ~ StageOutcome(stage, Unwrapped(response)).ok
    /\ flow = "parallel" =>
          \A b \in Branches :
              (branch[b] = "resolved" /\ Fenced(branch_response[b])) =>
                  branch_result[b] =
                      {gemini_parse_async(Unwrapped(branch_response[b]),
                                          ResponseModel(b))}

\* a secret is configured: WEBHOOK_SECRET is set and not empty
SecretConfigured == webhook_secret # None /\ The(webhook_secret) # ""

\* what _verify_webhook gives for the request being handled
Verification ==
    _verify_webhook(webhook_secret, request.body, request.signature)

\* the handler went on past its `if not _verify_webhook(...)` statement
PassedVerification ==
    /\ flow = "webhook"
    /\ \/ pc \in {"decode", "read", "returned", "http_400"}
       \/ pc = "raised" /\ data # None

\* C16: with a configured secret s, _verify_webhook accepts (returns True for)
\* a request with body b iff its signature is hex(hmac_sha256(b, s)); a
\* signature of another body or under another key, a signature with a flipped
\* bit and a missing signature are not accepted.  With no configured secret
\* every request is accepted.  The handler goes on iff the request was
\* accepted.
C16_VerifyAcceptsIffSigned ==
    flow = "webhook" =>
        LET accepts == Verification = Ok(TRUE)
        IN  /\ SecretConfigured =>
                  (accepts <=>
                      request.signature =
                          {hexdigest(The(webhook_secret), request.body)})
            /\ ~ SecretConfigured => accepts
            /\ pc # "verify" => (accepts <=> PassedVerification)

\* a signature with one low bit flipped was turned down; one of another body
\* would do as well
C16_Witness ==
    /\ flow = "webhook" /\ pc = "http_401"
    /\ SecretConfigured
    /\ request.signature =
           {flipped(hexdigest(The(webhook_secret), request.body), 1)}

\* C17: in the webhook handler a request that fails signature verification is
\* answered 401 before the body is parsed: once the verification statement
\* has run on a request it does not accept, the handler has raised the 401
\* (not the 400, whatever the body) and no decoded body exists.
C17_RejectedBeforeParsing ==
    (flow = "webhook" /\ pc # "verify" /\ Verification # Ok(TRUE)) =>
        /\ pc = "http_401"
        /\ ret = {HTTPException(401, "Invalid webhook signature")}
        /\ data = None

\* the fields each stage's response model declares without a default
RequiredFields(stage) ==
    CASE stage = "extract_event_info" ->
             {"description", "is_calendar_event", "confidence_score"}
      [] stage = "parse_event_details" ->
             {"name", "date", "duration_minutes", "participants"}
      [] stage = "generate_confirmation" ->
             {"confirmation_message", "calendar_link"}
      [] stage = "route_calendar_request" ->
             {"request_type", "confidence_score", "description"}
      [] stage = "handle_new_event" ->
             {"name", "date", "duration_minutes", "participants"}
      [] stage = "handle_modify_event" -> {"event_identifier", "changes"}

\* the response model of each stage, applied to the JSON object d
Shape(stage, d) ==
    CASE stage = "extract_event_info" -> EventExtraction(d)
      [] stage = "parse_event_details" -> EventDetails(d)
      [] stage = "generate_confirmation" -> EventConfirmation(d)
      [] stage = "route_calendar_request" -> CalendarRequestType(d)
      [] stage = "handle_new_event" -> NewEventDetails(d)
      [] stage = "handle_modify_event" -> ModifyEventDetails(d)

\* the values of d lie within what the stage's response model declares for
\* them: ge=0.0, le=1.0, ge=1, Literal[...]
WithinConstraints(d) ==
    /\ "confidence_score" \in DOMAIN d =>
           d.confidence_score >= 0 /\ d.confidence_score <= 1000
    /\ "duration_minutes" \in DOMAIN d => d.duration_minutes >= 1
    /\ "request_type" \in DOMAIN d => d.request_type \in RequestTypes

\* the stage that issued the last model call of the chain or routing flow
\* got an answer from the model
StageAnswered ==
    /\ flow \in {"chain", "routing"}
    /\ calls # <<>>
    /\ ~ response.raises

LastStage == calls[Len(calls)].stage

\* the answer is valid JSON that carries every required field of the stage
CompleteAnswer ==
    /\ json_loads(response.text).ok
    /\ RequiredFields(LastStage) \subseteq DOMAIN json_loads(response.text).val

\* the answer holds no JSON object at all, or one that lacks a required field
\* of the stage, whatever it is wrapped in
IncompleteAnswer ==
    \/ \A i \in 1 .. Len(response.text) : response.text[i].tok # "obj"
    \/ \E i \in 1 .. Len(response.text) :
           /\ response.text[i].tok = "obj"
           /\ ~ (RequiredFields(LastStage) \subseteq DOMAIN response.text[i].val)

\* C18, as stated: a response that is valid JSON and carries every required
\* field of the stage's shape yields a typed record with every required field
\* populated, and a response that lacks a required field or holds no JSON
\* object makes the stage fail.
C18_RequiredFieldsSuffice ==
    StageAnswered =>
        /\ CompleteAnswer =>
               /\ pc # "except"
               /\ Shape(LastStage, json_loads(response.text).val).ok
        /\ IncompleteAnswer => pc = "except"

\* C18, amended: a response that is valid JSON, carries every required field
\* of the stage's shape and keeps every value within the constraints the
\* shape declares yields a typed record with every required field populated;
\* a response that lacks a required field or holds no JSON object makes the
\* stage fail.
C18_ValidResponseYieldsRecord ==
    StageAnswered =>
        /\ (CompleteAnswer /\ WithinConstraints(json_loads(response.text).val)) =>
               LET record == Shape(LastStage, json_loads(response.text).val)
               IN  /\ pc # "except"
                   /\ record.ok
                   /\ RequiredFields(LastStage) \subseteq DOMAIN record.val
        /\ IncompleteAnswer => pc = "except"

\* the modify handler got a complete answer, and the details stage an
\* answer without its duration and participants
C18_Witness ==
    \/ /\ StageAnswered /\ LastStage = "handle_modify_event"
       /\ CompleteAnswer /\ pc = "returned"
    \/ /\ StageAnswered /\ LastStage = "parse_event_details"
       /\ json_loads(response.text).ok /\ IncompleteAnswer /\ pc = "except"

\* the JSON objects the response r holds, whatever they are wrapped in
ObjectsIn(r) ==
    { r.text[i].val : i \in { j \in 1 .. Len(r.text) : r.text[j].tok = "obj" } }

OutOfRange(d) ==
    /\ "confidence_score" \in DOMAIN d
    /\ d.confidence_score < 0 \/ d.confidence_score > 1000

\* the confidence_score the running flow has stored for its first stage
StoredConfidence ==
    IF flow = "chain" THEN { e.confidence_score : e \in extraction }
    ELSE { rr.confidence_score : rr \in route_result }

\* C19: in every flow a response whose confidence_score lies outside [0, 1]
\* is rejected: in the chain and in the routing flow the stage fails and no
\* confidence is stored, in the parallel validation the branch resolves to
\* its failure default, not to the response with a clamped score.  The
\* boundary values 0 and 1 are accepted and stored as sent.  A request_type
\* outside {new_event, modify_event, other} is rejected.
C19_OutOfRangeRejected ==
    /\ StageAnswered =>
         \A d \in ObjectsIn(response) :
           /\ OutOfRange(d) =>
                  pc = "except" /\ StoredConfidence = {}
           /\ ("request_type" \in DOMAIN d /\ d.request_type \notin RequestTypes) =>
                  pc = "except" /\ route_result = None
           /\ ( /\ response.text = <<Obj(d)>>
                /\ RequiredFields(LastStage) \subseteq DOMAIN d
                /\ WithinConstraints(d)
                /\ "confidence_score" \in DOMAIN d
                /\ d.confidence_score \in {0, 1000} ) =>
                  pc # "except" /\ StoredConfidence = {d.confidence_score}
    /\ (flow = "parallel" /\ branch["calendar"] = "resolved") =>
         \A d \in ObjectsIn(branch_response["calendar"]) :
           /\ OutOfRange(d) =>
                  branch_result["calendar"] = {default_response("CalendarValidation")}
           /\ ( /\ SentPlain("calendar", d)
                /\ {"is_calendar_request", "confidence_score"} \subseteq DOMAIN d
                /\ d.confidence_score \in {0, 1000} ) =>
                  branch_result["calendar"] =
                      {[is_calendar_request |-> d.is_calendar_request,
                        confidence_score |-> d.confidence_score]}

\* the chain's first stage was sent a confidence of 1.001 with
\* is_calendar_event true, and failed
C19_Witness ==
    /\ flow = "chain" /\ pc = "except"
    /\ LastStage = "extract_event_info"
    /\ \E d \in ObjectsIn(response) :
         /\ response.text = <<Obj(d)>>
         /\ "confidence_score" \in DOMAIN d
         /\ d.confidence_score = 1001
         /\ d.is_calendar_event

\* the first reply holds a function call that names get_weather
RequestsGetWeather ==
    /\ tool_response # None
    /\ \E i \in 1 .. Len(The(tool_response)) :
         /\ "function_call" \in DOMAIN The(tool_response)[i]
         /\ The(tool_response)[i].function_call.name = "get_weather"

\* the first function call of the first reply names get_weather
FirstRequestIsGetWeather ==
    /\ tool_response # None
    /\ \E i \in 1 .. Len(The(tool_response)) :
         /\ "function_call" \in DOMAIN The(tool_response)[i]
         /\ The(tool_response)[i].function_call.name = "get_weather"
         /\ \A j \in 1 .. (i - 1) : "function_call" \notin DOMAIN The(tool_response)[j]

\* the tool ran once, after the first reply was in the chat
ToolRanAfterFirstReply ==
    /\ Len(tool_runs) = 1
    /\ Len(chat) >= 2
    /\ chat[2] = ModelTurn(The(tool_response))

\* the tool's result went back as the next turn of the same chat
ResultResubmitted ==
    /\ Len(chat) = 4
    /\ chat[3] = UserTurn(FunctionResponse("get_weather", tool_runs[1].result))

\* the text of the reply at position i of the chat was returned
ReturnedTextOf(i) ==
    /\ response_text(chat[i].parts).ok
    /\ ret = {response_text(chat[i].parts).val}

\* C20, as stated: the tool is executed only after, and only if, the first
\* reply holds a request naming get_weather; its result is then resubmitted
\* as a follow-up turn of the same chat and the text returned is the text of
\* the follow-up reply; with no such request the tool is never executed and
\* the text of the first reply is returned.
C20_ToolOnlyOnRequest ==
    flow = "tool" =>
        /\ tool_runs # <<>> => RequestsGetWeather /\ ToolRanAfterFirstReply
        /\ (pc = "returned" /\ tool_runs # <<>>) =>
               ResultResubmitted /\ ReturnedTextOf(4)
        /\ (pc = "returned" /\ ~ RequestsGetWeather) =>
               /\ tool_runs = <<>>
               /\ Len(chat) = 2
               /\ ReturnedTextOf(2)

\* C20, amended: the tool is executed only after the first reply, and iff
\* the first function call of that reply names get_weather; its result is
\* then resubmitted as a follow-up turn of the same chat, and what is
\* returned is the text of the follow-up reply, or the string "Error getting
\* weather data: ..." when the follow-up call fails or its reply has no text.
\* Otherwise the tool is never executed and what is returned is the text of
\* the first reply, or the string "Error: ..." when the first call fails or
\* its reply has no text.
C20_ToolOnFirstRequest ==
    flow = "tool" =>
        /\ tool_runs # <<>> => FirstRequestIsGetWeather /\ ToolRanAfterFirstReply
        /\ (pc = "returned" /\ FirstRequestIsGetWeather) =>
               /\ tool_runs # <<>>
               /\ \/ ResultResubmitted /\ ReturnedTextOf(4)
                  \/ /\ ResultResubmitted
                     /\ ~ response_text(chat[4].parts).ok
                     /\ ret = {<<"Error getting weather data: ",
                                 response_text(chat[4].parts).exc>>}
                  \/ /\ Len(chat) = 2
                     /\ ret = {<<"Error getting weather data: ", "ProviderError">>}
        /\ (pc = "returned" /\ ~ FirstRequestIsGetWeather) =>
               /\ tool_runs = <<>>
               /\ \/ Len(chat) = 2 /\ ReturnedTextOf(2)
                  \/ /\ Len(chat) = 2
                     /\ ~ response_text(chat[2].parts).ok
                     /\ ret = {<<"Error: ", response_text(chat[2].parts).exc>>}
                  \/ /\ chat = <<>>
                     /\ ret = {<<"Error: ", "ProviderError">>}

\* the tool ran for the coordinates the model asked for and the follow-up
\* reply's text came back
C20_Witness ==
    /\ flow = "tool" /\ pc = "returned"
    /\ Len(tool_runs) = 1
    /\ tool_runs[1].latitude = {Paris.latitude}
    /\ ResultResubmitted
    /\ ret = {<<"It is sunny in Paris.">>}

\* the model has asked, in the running request, for a call of search_kb
SearchKbRequested ==
    \E i \in 1 .. Len(kb_chat) :
        /\ kb_chat[i].role = "model"
        /\ \E j \in 1 .. Len(kb_chat[i].parts) :
             /\ "function_call" \in DOMAIN kb_chat[i].parts[j]
             /\ kb_chat[i].parts[j].function_call.name = "search_kb"

\* C21: search_kb is invoked only when the model's tool-invocation request
\* names it: in ask_with_retrieval and in ask_with_auto_tools every call of
\* search_kb comes after a model response holding a function call named
\* search_kb.
C21_SearchOnlyOnRequest ==
    (flow = "retrieval" /\ kb_calls # <<>>) => SearchKbRequested

\* the new-event handler has returned a success response
NewEventSucceeded ==
    /\ flow = "routing" /\ pc = "returned"
    /\ calls # <<>> /\ LastStage = "handle_new_event"
    /\ ret # None /\ The(ret).success

\* C22, as stated: whenever the new-event handler returns a success
\* response, the details it was built from carry a name, a date,
\* duration_minutes >= 1 and a non-empty participants list; a model response
\* with a duration below 1 or an empty participants list never produces a
\* success response.
C22_NewEventHasParticipants ==
    NewEventSucceeded =>
        \A d \in ObjectsIn(response) :
            /\ {"name", "date", "duration_minutes", "participants"} \subseteq DOMAIN d
            /\ d.duration_minutes >= 1
            /\ d.participants # <<>>

\* C22, amended: whenever the new-event handler returns a success response,
\* the details it was built from carry a name, a date, duration_minutes >= 1
\* and a participants list, which may be empty; a model response with a
\* duration below 1 or without one of the four fields never produces a
\* success response.
C22_NewEventValidated ==
    NewEventSucceeded =>
        \A d \in ObjectsIn(response) :
            /\ {"name", "date", "duration_minutes", "participants"} \subseteq DOMAIN d
            /\ d.duration_minutes >= 1
            /\ The(ret).message =
                   <<"Created new event '", d.name, "' for ", d.date, " with ">>
                       \o join(d.participants)

\* a success response built from details with the smallest duration allowed
\* and no participant
C22_Witness ==
    /\ NewEventSucceeded
    /\ \E d \in ObjectsIn(response) :
         d.duration_minutes = 1 /\ d.participants = <<>>

ChainOrder == <<"extract_event_info", "parse_event_details", "generate_confirmation">>

\* C23: in the prompt chain the stages run in the order extract_event_info,
\* parse_event_details, generate_confirmation, each at most once: the calls
\* issued are a prefix of that order.  The second stage is invoked only after
\* the first succeeded and the gate of process_calendar_request let its
\* result through, and is given the description the first stage produced;
\* the third is invoked only after the second succeeded and is given its
\* details; a confirmation is returned only when all three succeeded.
C23_ChainInOrder ==
    flow = "chain" =>
        /\ Len(calls) <= Len(ChainOrder)
        /\ \A i \in 1 .. Len(calls) : calls[i].stage = ChainOrder[i]
        /\ Len(calls) >= 2 =>
               /\ extraction # None
               /\ The(extraction).is_calendar_event
               /\ The(extraction).confidence_score >= ChainThreshold
               /\ calls[2].arg = The(extraction).description
        /\ Len(calls) >= 3 =>
               /\ event_details # None
               /\ calls[3].arg = The(event_details)
        /\ ret # None =>
               /\ pc = "returned"
               /\ Len(calls) = 3
               /\ extraction # None /\ event_details # None
               /\ generate_confirmation(response) = Ok(The(ret))

\* the chain ran to its end and returned a confirmation
C23_Witness ==
    /\ flow = "chain" /\ pc = "returned"
    /\ ret # None
    /\ Len(calls) = 3

\* the records of the kb.json that search_kb call c read, <<>> if it held none
RecordsRead(c) ==
    IF c.file.state = "json" /\ "records" \in DOMAIN c.file.content
    THEN c.file.content.records
    ELSE <<>>

\* record k of the file answers the query of call c
Matches(c, k) ==
    /\ "question" \in DOMAIN RecordsRead(c)[k]
    /\ contains(lower(c.question), lower(RecordsRead(c)[k].question))

\* search_kb call c found a matching record in the file and returned it
FoundRecord(c) ==
    \E k \in 1 .. Len(RecordsRead(c)) : Matches(c, k) /\ c.result = RecordsRead(c)[k]

\* C24: ask_with_retrieval presents a knowledge-base result as the official
\* answer from the knowledge base only when search_kb found a matching
\* record; when the lookup found nothing, or kb.json was missing, unreadable
\* or malformed, the prompt is the general one that says the knowledge base
\* has no information.
C24_OfficialOnlyWhenFound ==
    (flow = "retrieval" /\ prompt # None /\ kb_calls # <<>> /\ kb_chat = <<>>) =>
        LET c == kb_calls[Len(kb_calls)]
        IN  /\ The(prompt).answer # None => FoundRecord(c)
            /\ ~ FoundRecord(c) => prompt = {GeneralPrompt(question)}

\* C25: search_kb never raises.  Whatever the query and the state of kb.json,
\* a call returns the first record, in file order, whose question holds the
\* query in any letter case, or else a record with only an `answer` field
\* (not found, not available, error); the matching record is returned
\* whenever no record before it lacks a question.  No request ends because
\* search_kb raised: ask_with_retrieval always goes on to build its prompt,
\* and ask_with_auto_tools runs the search whenever the model asked for it.
C25_SearchKbNeverRaises ==
    flow = "retrieval" =>
        /\ \A i \in 1 .. Len(kb_calls) :
             LET c == kb_calls[i]
                 hits == { k \in 1 .. Len(RecordsRead(c)) : Matches(c, k) }
                 broken == { k \in 1 .. Len(RecordsRead(c)) :
                               "question" \notin DOMAIN RecordsRead(c)[k] }
             IN  /\ \/ \E k \in hits :
                          /\ c.result = RecordsRead(c)[k]
                          /\ \A j \in hits : k <= j
                    \/ DOMAIN c.result = {"answer"}
                 /\ \A k \in hits :
                        (\A j \in hits \cup broken : k <= j) =>
                            c.result = RecordsRead(c)[k]
                 /\ (hits = {} /\ broken = {} /\ c.file.state = "json"
                       /\ "records" \in DOMAIN c.file.content) =>
                        c.result = NotFound
        /\ pc = "raised" => prompt # None
        /\ (pc \in {"generate", "returned"} /\ kb_chat = <<>>
              /\ is_kb_question(question) /\ prompt # None) => Len(kb_calls) = 1
        /\ (pc \in {"auto_follow_up", "returned"} /\ SearchKbRequested) =>
               Len(kb_calls) = 1

\* two records of the file answer the query, which is in capitals, and the
\* one that comes first was returned
C25_Witness ==
    /\ flow = "retrieval"
    /\ \E i \in 1 .. Len(kb_calls) :
         /\ kb_calls[i].question = "RETURN POLICY"
         /\ RecordsRead(kb_calls[i]) = <<ReturnsRecordOld, ReturnsRecord>>
         /\ kb_calls[i].result = ReturnsRecordOld

\* C26: the three orchestrator entry points never let an exception escape,
\* whatever the model does (returns text, returns malformed text, raises):
\* the chain's process_calendar_request returns a confirmation or None, the
\* routing process_calendar_request a CalendarResponse or None, and
\* validate_request an outcome dictionary whose is_valid is a boolean.
C26_NoExceptionEscapes ==
    /\ flow \in {"chain", "routing", "parallel"} => pc # "raised"
    /\ (flow = "chain" /\ Done) =>
         \/ ret = None
         \/ /\ pc = "returned"
            /\ DOMAIN The(ret) = {"confirmation_message", "calendar_link"}
    /\ (flow = "routing" /\ Done) =>
         \/ ret = None
         \/ /\ DOMAIN The(ret) = {"success", "message", "calendar_link"}
            /\ The(ret).success \in BOOLEAN
    /\ (flow = "parallel" /\ Done) =>
         /\ ret # None
         /\ "is_valid" \in DOMAIN The(ret)
         /\ The(ret).is_valid \in BOOLEAN

\* the model call of the chain's last stage raised and the chain returned
\* None
C26_Witness ==
    /\ flow = "chain" /\ pc = "except"
    /\ Len(calls) = 3
    /\ response.raises
    /\ ret = None

\* C27: every webhook request that passes signature verification ends in one
\* of two outcomes: the 400 'Invalid JSON' rejection when its body is not
\* decodable JSON, or a response with ok = true that carries the payload's
\* id and status and the length of its text (0 when it has none); a body
\* that is not a JSON object, or whose text is null or absent, leads to no
\* other outcome.
C27_AuthenticatedOutcomes ==
    (PassedVerification /\ Done) =>
        \/ /\ pc = "http_400"
           /\ ret = {HTTPException(400, "Invalid JSON")}
           /\ ~ decode_body(request.body).ok
        \/ /\ pc = "returned"
           /\ decode_body(request.body).ok
           /\ The(ret).ok = TRUE
           /\ \A d \in ObjectsIn(request.body) :
                /\ The(ret).id = (IF "id" \in DOMAIN d THEN d.id ELSE None)
                /\ The(ret).status = (IF "status" \in DOMAIN d THEN d.status ELSE None)
                /\ The(ret).length =
                       (IF "text" \in DOMAIN d /\ d.text # None
                        THEN Len(The(d.text)) ELSE 0)

\* the raw confidence the classification response carried, while that
\* response is still the latest one
RawConfidences ==
    { d.confidence_score : d \in ObjectsIn(response) }

\* C29: in the routing flow the classification is stored with its confidence
\* rounded to two decimals, and the gate decides on that rounded value: for a
\* raw confidence c the request passes the gate iff round(c, 2) >= 0.7, so a
\* raw value that rounds up to 0.70 passes and one that rounds down below
\* 0.70 does not.
C29_GateOnRounded ==
    /\ [](flow = "routing" /\ pc = "gate" =>
            \A c \in RawConfidences :
               The(route_result).confidence_score = round2(c))
    /\ [][flow = "routing" /\ pc = "gate" =>
            \A c \in RawConfidences :
               /\ pc' = "dispatch" <=> round2(c) >= RoutingThreshold
               /\ pc' = "gate_failed" <=> round2(c) < RoutingThreshold]_vars

C29_Witness ==
    /\ flow = "routing" /\ pc \in {"handle_new_event", "handle_modify_event"}
    /\ RawConfidences = {RoutingThreshold - 1}
    /\ The(route_result).confidence_score = RoutingThreshold

\* the transcript-job requests transcribe_by_file has sent
JobRequests ==
    { i \in 1 .. Len(upstream) : upstream[i].url = TranscriptEndpoint }

UploadAnswered == flow = "transcribe" /\ resp # None

\* C28: transcribe_by_file uploads, then creates the transcript job: a job
\* request is sent only after an upload that succeeded and carries the
\* upload_url of its answer; an upload answered with a status >= 300 ends in
\* 502 with no job request; an upload answered with a status below 300 is
\* followed by the job request, which ends in the job's id or, when answered
\* with a status >= 300, in 502.
C28_UploadThenJob ==
    (flow = "transcribe" /\ Done) =>
        /\ \A i \in JobRequests :
              /\ i > 1
              /\ upstream[1].url = UploadEndpoint
              /\ UploadAnswered
              /\ The(resp).status_code < 300
              /\ upstream[i].audio_url = {The(resp).content.upload_url}
        /\ (UploadAnswered /\ The(resp).status_code >= 300) =>
              /\ pc = "http_502"
              /\ The(ret).status_code = 502
              /\ JobRequests = {}
        /\ (UploadAnswered /\ The(resp).status_code < 300) =>
              /\ JobRequests # {}
              /\ \/ pc = "returned" /\ "id" \in DOMAIN The(ret)
                 \/ pc = "http_502" /\ The(ret).status_code = 502
                 \/ pc = "raised" /\ ret = None

=============================================================================
